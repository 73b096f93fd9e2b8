------------------------- MODULE ConnectionRegistry -------------------------
(***************************************************************************)
(* The engines an application registers by name, and which of them a       *)
(* statement of a task reaches (YaraOrm and the routing functions of       *)
(* connection.py).  The registry is shared by the tasks of an event loop:  *)
(* connecting, closing and executing are awaits, everything between is     *)
(* atomic.  Each task has its own context of pinned transactions.          *)
(***************************************************************************)
EXTENDS Naturals, Sequences, FiniteSets, SequencesExt

CONSTANTS
  Tasks,        \* tasks of the event loop
  Callers,      \* those that register connections and create schemas
  Workers,      \* those that open transactions
  Names,        \* connection names besides "default"
  Dialects,     \* what a URL leads to
  Routers,      \* routers: [model -> [read, write: name, or None for no opinion]]
  Models,       \* all models, in the order the registry lists them
  References,   \* <<m, d>>: a foreign key of m to d
  Joins,        \* through table -> [owner, target]
  Meta,         \* Meta.default_connection: model -> name, or None
  Zones,        \* time zones an init may ask for
  None,         \* no engine, no router, no transaction
  MaxEngines,   \* bound: engines connected in all
  MaxCalls      \* bound: calls made in all

AllNames == Names \cup {"default"}
Engines == 1 .. MaxEngines

ASSUME RegistryAssumption ==
  /\ "default" \notin Names /\ Callers \cup Workers \subseteq Tasks
  /\ MaxEngines \in Nat /\ MaxCalls \in Nat
  /\ None \notin Engines /\ None \notin AllNames
  /\ Meta \in [ToSet(Models) -> AllNames \cup {None}]
  /\ \A r \in Routers :
       r \in [ToSet(Models) -> [read : AllNames \cup {None}, write : AllNames \cup {None}]]

\* The registry lists its models; a through table is none of them and joins two.
ASSUME ModelsAssumption ==
  /\ Models \in Seq(ToSet(Models)) /\ IsFiniteSet(DOMAIN Joins)
  /\ \A j \in DOMAIN Joins :
       j \notin ToSet(Models) /\ {Joins[j].owner, Joins[j].target} \subseteq ToSet(Models)

VARIABLES
  connections,  \* _CONNECTIONS: name -> engine
  default,      \* _ENGINE, and _DIALECT with it
  router,       \* _ROUTER
  zone,         \* _TIMEZONE
  engines,      \* every engine so far: [dialect, open, zone: what its init asked for]
  job,          \* what a caller is doing
  pinned,       \* _active_tx of each task: name -> engine the transaction is on
  calls,        \* calls made so far
  overlapped,   \* history: two calls were under way at once
  failed,       \* history: the last init failed to connect
  added,        \* history: add_connection took the name "default" since the last init
  config        \* history: the other names of the last init's config, {} if one failed

registry == <<connections, default, router, zone>>
history == <<failed, added, config>>
vars == <<registry, engines, job, pinned, calls, overlapped, history>>

Idle == [do |-> "idle", of |-> "add", name |-> "default", previous |-> None, router |-> None,
         zone |-> None, rest |-> {}, tables |-> <<>>, created |-> {}]

Init ==
  /\ connections = [n \in AllNames |-> None]
  /\ default = None /\ router = None /\ zone = "UTC"
  /\ engines = <<>>
  /\ job = [t \in Callers |-> Idle]
  /\ pinned = [t \in Tasks |-> [n \in AllNames |-> None]]
  /\ calls = 0 /\ overlapped = FALSE /\ failed = FALSE /\ added = FALSE /\ config = {}

-----------------------------------------------------------------------------
(* Which executor and which dialect a statement gets. *)

Opinion(m, write) ==
  IF router = None THEN None ELSE IF write THEN router[m].write ELSE router[m].read

\* A model the router has no opinion on goes where its Meta pins it, or to "default".
Route(m, write) ==
  IF Opinion(m, write) # None THEN Opinion(m, write)
  ELSE IF Meta[m] # None THEN Meta[m] ELSE "default"

NamedConnection(n) == connections[n]
GetEngine == default
Pool(n) == IF n = "default" THEN GetEngine ELSE NamedConnection(n)

ResolveConnectionName(m, write, using) == IF using # None THEN using ELSE Route(m, write)

\* The connection whose open transaction of t takes the statement, or None.  A read
\* that names no connection joins the transaction on the model's write connection
\* rather than going to a replica.
TxName(t, m, write, using) ==
  LET name == ResolveConnectionName(m, write, using)
  IN IF pinned[t][name] # None THEN name
     ELSE IF ~write /\ using = None /\ pinned[t][Route(m, TRUE)] # None THEN Route(m, TRUE)
     ELSE None

GetExecutor(t, m, write, using) ==
  LET tx == TxName(t, m, write, using)
  IN IF tx # None THEN pinned[t][tx] ELSE Pool(ResolveConnectionName(m, write, using))

DialectOf(e) == IF e = None THEN None ELSE engines[e].dialect

\* Mutant: the fallback of get_executor is not mirrored.
DialectOfRoute(t, m, using) ==
  IF using # None THEN DialectOf(NamedConnection(using))
  ELSE LET n == Route(m, FALSE)
       IN DialectOf(IF pinned[t][n] # None THEN pinned[t][n] ELSE Pool(n))

\* The model's dialect is its read connection's, whatever the statement.
GetDialect(t, m, using) ==
  IF using # None THEN DialectOf(NamedConnection(using))
  ELSE LET tx == TxName(t, m, FALSE, None)
       IN DialectOf(IF tx # None THEN pinned[t][tx] ELSE Pool(Route(m, FALSE)))

-----------------------------------------------------------------------------
(* The calls of a caller: each starts from idle; a second one started meanwhile *)
(* is remembered.                                                               *)

Begin(t, work) ==
  /\ job[t].do = "idle" /\ calls < MaxCalls
  /\ calls' = calls + 1
  /\ job' = [job EXCEPT ![t] = work]
  /\ overlapped' = (overlapped \/ \E u \in Callers : job[u].do # "idle")

Go(t, work) == job' = [job EXCEPT ![t] = work] /\ UNCHANGED <<calls, overlapped>>

Connecting(of, n, r, z, rest) ==
  [Idle EXCEPT !.do = "connect", !.of = of, !.name = n, !.router = r, !.zone = z,
               !.previous = connections[n], !.rest = rest]

\* Mutant: the zone is that of the first init.
InitOrmKeepsZone(t) ==
  /\ \E r \in Routers \cup {None}, z \in Zones, rest \in {{}, Names} :
       /\ zone' = IF default = None THEN z ELSE zone
       /\ Begin(t, Connecting("init", "default", r, z, rest))
  /\ UNCHANGED <<connections, default, router, engines, pinned, history>>

\* init: the zone is set before connecting; with a config, the other names follow.
InitOrm(t) ==
  /\ \E r \in Routers \cup {None}, z \in Zones, rest \in {{}, Names} :
       zone' = z /\ Begin(t, Connecting("init", "default", r, z, rest))
  /\ UNCHANGED <<connections, default, router, engines, pinned, history>>

\* add_connection takes any name, "default" too.
AddConnection(t) ==
  /\ \E n \in AllNames : Begin(t, Connecting("add", n, None, None, {}))
  /\ UNCHANGED <<registry, engines, pinned, history>>

\* What follows a registration: the next name of the config, or nothing.
AfterConnect(rest) ==
  IF rest = {} THEN Idle
  ELSE LET n == CHOOSE x \in rest : TRUE IN Connecting("init", n, None, None, rest \ {n})

\* The call is an init on its way to its default connection.
Initialising(t) == job[t].do = "connect" /\ job[t].of = "init" /\ job[t].name = "default"

Opened(d, z) == Append(engines, [dialect |-> d, open |-> TRUE, zone |-> z])
Closed(e) == [engines EXCEPT ![e].open = FALSE]

Register(t) ==
  LET n == job[t].name
      e == Len(engines) + 1
  IN /\ connections' = [connections EXCEPT ![n] = e]
     /\ IF Initialising(t)
        THEN /\ default' = e /\ router' = job[t].router
             /\ failed' = FALSE /\ added' = FALSE /\ config' = job[t].rest
        ELSE /\ added' = (added \/ n = "default")
             /\ UNCHANGED <<default, router, failed, config>>
     /\ UNCHANGED zone

\* Mutant: the engine that was registered is forgotten, not closed.
ConnectedAndLeft(t) ==
  /\ job[t].do = "connect" /\ Len(engines) < MaxEngines
  /\ \E d \in Dialects : engines' = Opened(d, job[t].zone)
  /\ Register(t) /\ Go(t, AfterConnect(job[t].rest))
  /\ UNCHANGED pinned

Connected(t) ==
  /\ job[t].do = "connect" /\ Len(engines) < MaxEngines
  /\ \E d \in Dialects : engines' = Opened(d, job[t].zone)
  /\ Register(t)
  /\ Go(t, [job[t] EXCEPT !.do = IF job[t].previous # None THEN "close previous" ELSE "next"])
  /\ UNCHANGED pinned

\* A URL nobody answers, or a cancelled call: the registry keeps what it had, of a
\* config the names that connected before.
ConnectFailed(t) ==
  /\ job[t].do = "connect"
  /\ failed' = (failed \/ Initialising(t))
  /\ config' = IF job[t].of = "init" /\ ~Initialising(t) THEN {} ELSE config
  /\ Go(t, Idle)
  /\ UNCHANGED <<registry, engines, pinned, added>>

\* Mutant: a call that replaced an engine is over, the rest of its config forgotten.
ClosePreviousAndEnd(t) ==
  /\ job[t].do = "close previous"
  /\ engines' = Closed(job[t].previous)
  /\ Go(t, Idle)
  /\ UNCHANGED <<registry, pinned, history>>

ClosePrevious(t) ==
  /\ job[t].do = "close previous"
  /\ engines' = Closed(job[t].previous)
  /\ Go(t, [job[t] EXCEPT !.do = "next"])
  /\ UNCHANGED <<registry, pinned, history>>

NextOfConfig(t) ==
  /\ job[t].do = "next"
  /\ Go(t, AfterConnect(job[t].rest))
  /\ UNCHANGED <<registry, engines, pinned, history>>

\* close: the engines registered now are closed concurrently, then all is forgotten.
CloseOrm(t) ==
  /\ Begin(t, [Idle EXCEPT !.do = "close all",
                           !.rest = {connections[n] : n \in AllNames} \ {None}])
  /\ UNCHANGED <<registry, engines, pinned, history>>

CloseOne(t) ==
  /\ job[t].do = "close all"
  /\ \E e \in job[t].rest : /\ engines' = Closed(e)
                            /\ Go(t, [job[t] EXCEPT !.rest = job[t].rest \ {e}])
  /\ UNCHANGED <<registry, pinned, history>>

\* Mutant: _ENGINE is left.
ForgetConnections(t) ==
  /\ job[t].do = "close all" /\ job[t].rest = {}
  /\ connections' = [n \in AllNames |-> None] /\ router' = None /\ zone' = "UTC"
  /\ failed' = FALSE /\ added' = FALSE /\ config' = {}
  /\ Go(t, Idle)
  /\ UNCHANGED <<default, engines, pinned>>

Forget(t) ==
  /\ job[t].do = "close all" /\ job[t].rest = {}
  /\ connections' = [n \in AllNames |-> None] /\ default' = None
  /\ router' = None /\ zone' = "UTC"
  /\ failed' = FALSE /\ added' = FALSE /\ config' = {}
  /\ Go(t, Idle)
  /\ UNCHANGED <<engines, pinned>>

SetRouter ==
  /\ router' \in (Routers \cup {None}) \ {router}
  /\ overlapped' = (overlapped \/ \E u \in Callers : job[u].do # "idle")
  /\ UNCHANGED <<connections, default, zone, engines, job, pinned, calls, history>>

-----------------------------------------------------------------------------
(* generate_schemas: the tables of all models, referenced ones first, then the *)
(* join tables; the executor is looked up again for every table.               *)

\* Mutant: the order of the registry.
ListedModels == Models

\* The models m refers to, but for itself.
Targets(m) == {d \in ToSet(Models) \ {m} : <<m, d>> \in References}

\* The references of the models lead to no cycle: they can be ranked.
Acyclic ==
  \E rank \in [ToSet(Models) -> 1 .. Len(Models)] :
    \A m \in ToSet(Models) : \A d \in Targets(m) : rank[d] < rank[m]

\* SelectSeq by membership in S, written as a function.
Kept(s, S) ==
  LET kept[i \in 0 .. Len(s)] ==
        IF i = 0 THEN <<>> ELSE IF s[i] \in S THEN Append(kept[i - 1], s[i]) ELSE kept[i - 1]
  IN  kept[Len(s)]

\* What is left is emitted round by round: the models whose references are all emitted,
\* or a cycle as a whole.
Left(emitted) == Kept(Models, ToSet(Models) \ emitted)
Ready(emitted) == Kept(Left(emitted), {m \in ToSet(Models) : Targets(m) \subseteq emitted})
Round(emitted) == IF Ready(emitted) = <<>> THEN Left(emitted) ELSE Ready(emitted)

TopoSortModels ==
  LET f[emitted \in SUBSET ToSet(Models)] ==
        IF Left(emitted) = <<>> THEN <<>>
        ELSE Round(emitted) \o f[emitted \cup ToSet(Round(emitted))]
  IN f[{}]

Tables == TopoSortModels \o SetToSeq(DOMAIN Joins)

GenerateSchemas(t) ==
  /\ Begin(t, [Idle EXCEPT !.do = "generate", !.tables = Tables])
  /\ UNCHANGED <<registry, engines, pinned, history>>

\* The tables that CREATE TABLE refers to.
Needs(table) ==
  IF table \in DOMAIN Joins THEN {Joins[table].owner, Joins[table].target} ELSE Targets(table)

Owner(table) == IF table \in DOMAIN Joins THEN Joins[table].owner ELSE table

\* One CREATE TABLE IF NOT EXISTS; without an open engine the call fails.
CreateTable(t) ==
  /\ job[t].do = "generate" /\ job[t].tables # <<>>
  /\ LET table == Head(job[t].tables)
         on == GetExecutor(t, Owner(table), TRUE, None)
     IN IF on # None /\ engines[on].open /\ GetDialect(t, Owner(table), None) # None
        THEN Go(t, IF Len(job[t].tables) = 1 THEN Idle
                   ELSE [job[t] EXCEPT !.tables = Tail(job[t].tables),
                                       !.created = job[t].created \cup {<<on, table>>}])
        ELSE Go(t, Idle)
  /\ UNCHANGED <<registry, engines, pinned, history>>

-----------------------------------------------------------------------------
\* in_transaction: an outermost block pins a transaction of the registered engine.  A
\* task enters and leaves its blocks between its calls.
Between(t) == t \in Callers => job[t].do = "idle"

EnterTransaction(t) ==
  /\ Between(t)
  /\ \E n \in AllNames :
       /\ pinned[t][n] = None
       /\ NamedConnection(n) # None /\ engines[NamedConnection(n)].open
       /\ pinned' = [pinned EXCEPT ![t][n] = NamedConnection(n)]
  /\ UNCHANGED <<registry, engines, job, calls, overlapped, history>>

ExitTransaction(t) ==
  /\ Between(t)
  /\ \E n \in AllNames : pinned[t][n] # None /\ pinned' = [pinned EXCEPT ![t][n] = None]
  /\ UNCHANGED <<registry, engines, job, calls, overlapped, history>>

Next ==
  \/ SetRouter
  \/ \E t \in Callers :
       \/ InitOrm(t) \/ AddConnection(t) \/ Connected(t) \/ ConnectFailed(t)
       \/ ClosePrevious(t) \/ NextOfConfig(t) \/ CloseOrm(t) \/ CloseOne(t) \/ Forget(t)
       \/ GenerateSchemas(t) \/ CreateTable(t)
  \/ \E t \in Workers : EnterTransaction(t) \/ ExitTransaction(t)

Spec == Init /\ [][Next]_vars

-----------------------------------------------------------------------------
(* Properties. *)

\* Every variable has its type: a registered engine is one that connected, a task waits
\* to close only an engine that existed before its own.
TypeOK ==
  /\ connections \in [AllNames -> DOMAIN engines \cup {None}]
  /\ default \in DOMAIN engines \cup {None}
  /\ router \in Routers \cup {None} /\ zone \in Zones \cup {"UTC"}
  /\ Len(engines) <= MaxEngines
  /\ ToSet(engines) \subseteq [dialect : Dialects, open : BOOLEAN, zone : Zones \cup {None}]
  /\ pinned \in [Tasks -> [AllNames -> DOMAIN engines \cup {None}]]
  /\ \A t \in Callers : job[t].previous \in DOMAIN engines \cup {None}
  /\ added \in BOOLEAN /\ config \subseteq Names

\* _ENGINE and the "default" entry are two copies of one fact: a statement that asks by
\* name and one that does not reach the same engine, however init, add_connection and
\* close of several tasks overlap; only add_connection under the name "default" moves
\* the entry and leaves _ENGINE behind.
OneDefault == ~added => default = connections["default"]

\* Replacing an engine, also when the new one cannot connect, never leaves a name on a
\* closed pool (connection.py:905 and :1005): only close() empties registered pools.
RegisteredIsOpen ==
  ~overlapped /\ (\A t \in Callers : job[t].do # "close all") =>
     \A n \in AllNames : connections[n] # None => engines[connections[n]].open

\* When the calls never overlapped and none is under way, every open engine is
\* registered: no pool was left behind by a replacement.
NothingLeaks ==
  ~overlapped /\ (\A t \in Callers : job[t].do = "idle") =>
     \A e \in DOMAIN engines : engines[e].open => \E n \in AllNames : connections[n] = e

\* The zone that converts a datetime is the one that the init of its database asked for,
\* and UTC again after close(), unless the last init failed after setting it or calls
\* overlapped: the zone is set before the await and its engine after it.
ZoneOfDefault ==
  (~overlapped /\ ~failed /\ \A t \in Callers : ~Initialising(t))
     => zone = IF default = None THEN "UTC" ELSE engines[default].zone

\* An init with a config that succeeded left nothing of an earlier one: each of its names
\* leads to an engine connected after the default one, through whatever engines were
\* replaced, failed to connect later or were added since.
ConfigIsWhole ==
  (~overlapped /\ \A t \in Callers : job[t].do = "idle")
     => \A n \in config : connections[n] # None /\ connections[n] > default

\* A statement is rendered for the database that executes it: every read, every write of
\* a model whose reads and writes go to one connection, and every statement with
\* using_db unless the name was registered again since its transaction began, or is a
\* "default" that add_connection took.
RenderedForExecutor ==
  \A t \in Tasks, m \in ToSet(Models), write \in BOOLEAN, using \in AllNames \cup {None} :
     LET on == GetExecutor(t, m, write, using)
     IN (/\ on # None
         /\ using = None => ~write \/ Route(m, TRUE) = Route(m, FALSE)
         /\ using # None => /\ pinned[t][using] \in {None, NamedConnection(using)}
                            /\ ~(added /\ using = "default"))
          => GetDialect(t, m, using) = engines[on].dialect

\* CREATE TABLE never names a table that is not there: on every database the referenced
\* table of a foreign key or join table, routed to the same connection, was created
\* first, if nothing was registered or routed anew while the schemas were generated.
ReferencedFirst ==
  ~overlapped => \A t \in Callers : job[t].do = "generate" /\ job[t].tables # <<>> =>
     LET table == Head(job[t].tables)
         on == GetExecutor(t, Owner(table), TRUE, None)
     IN \A d \in Needs(table) : (on # None /\ Route(d, TRUE) = Route(Owner(table), TRUE))
                            => <<on, d>> \in job[t].created

\* Engines are open exactly while they are registered, as long as calls do not overlap.
OpenIffRegistered == TypeOK /\ RegisteredIsOpen /\ NothingLeaks

\* The default connection, its two references and the time zone are of one configuration.
DefaultIsWhole == OneDefault /\ ZoneOfDefault

=============================================================================
