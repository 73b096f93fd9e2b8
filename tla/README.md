# A verification project for yara-orm

yara-orm is an asynchronous object-relational mapper: a Python layer (models, querysets,
relations, migrations) on top of a Rust engine (`src/rust`) that pools connections to
PostgreSQL, MySQL, SQL Server, Oracle and SQLite.  This directory holds TLA+ models of the
parts of it in which order, concurrency and failure matter, the TLC configurations that
model-check them, and TLAPS proofs about them.

- [The system](#the-system): components, state, operations, interactions
- [Modules](#modules): which module models which part, and how
- [Runs](#runs): what is checked, within which bounds
- [Where code and documentation disagree](#where-code-and-documentation-disagree)
- [Proofs](#proofs)
- [What is not modelled](#what-is-not-modelled) and the [plan](#plan)

Commands, from this directory: `tlc -config tx_postgres.cfg MCTxGuard` for a run (each
`.cfg` names its instance, the `MC...` module of the same subsystem runs it) and
`tlapm TxGuard_proofs.tla` for the proofs.

## The system

### Components

| Component | Source | State it keeps | Operations | What makes it correct |
|---|---|---|---|---|
| Engine and pool | `rust/src/engine.rs`, `backend/*.rs` | the pool's slots, which connection is checked out by whom, the pool's closed flag | `execute`, `fetch_*`, `execute_many`, `execute_script`, `begin`, `close` | a connection is used by one caller at a time and comes back clean |
| Pinned transaction | `engine.rs` `Transaction`, `PgTx`, `SqliteTx`, `mysql_tx_on_drop`, `mssql_tx_on_drop`, `OracleTx` | `Option<Box<dyn TxConn>>` behind a mutex, `TxState` | `execute`, `commit`, `rollback`, drop | all of it is durable or nothing is; a dropped transaction is rolled back and its connection returned |
| Sync fast path | `engine.rs` `try_run_sync`, `run_sync`, `Ready` | the stored result of a `Ready` | SQLite statements run on the calling thread, with a pool checkout that never waits | same results as the asynchronous path, never blocks on the pool |
| Password provider | `backend/postgres.rs` | one slot behind a mutex | `set_password`, `password_for_new_connection` | a new connection uses the latest password |
| `in_transaction`, `TransactionWrapper` | `connection.py`, `transactions.py` | the pinned transaction of each context and connection name, the stack of open savepoints, a counter | `__aenter__`, `__aexit__`, `savepoint`, `release`, `rollback_to` | a nested block that rolls back undoes exactly its own writes |
| Connection registry | `connection.py` | the engines by name, the default engine, routers, time-zone settings | `init`, `add_connection`, `close`, `set_router` | an engine is open exactly while it is registered |
| Routing | `connection.py` | none of its own | `get_executor`, `get_dialect`, router lookup, read-your-own-writes | inside a transaction every statement goes to the pinned connection |
| Migration manager | `migrations/manager.py` | the files on disk, `orm_migrations` in the database | `make_migrations`, `upgrade`, `downgrade`, `history`, `heads`, `sqlmigrate` | what is recorded is done, what is done is recorded, and the data survives |
| Operations, project state | `migrations/operations.py` | the replayed schema state | 30 operations, each with SQL and state transitions in both directions | reverting undoes applying, in the state and in SQL |
| Autodetector | `migrations/diff.py` | none | `diff` of two states | applying the difference to the old state gives the new one |
| Compiled plans | `models.py` `MetaInfo`; read by `queryset.py`, `relations.py`, `prefetch.py` | statements and decoders of one dialect in use, those of the others put aside | `compile`, `partial_decode_plan` | a row is decoded by the plan of the statement that fetched it |
| Model persistence | `models.py` | `_in_db`, primary key, unread database defaults and cached relations of each instance | `save`, `delete`, `get_or_create`, `update_or_create`, bulk operations | an instance's flags agree with its row |
| QuerySet, expressions | `queryset.py`, `expressions.py`, `functions.py`, `aggregations.py` | immutable builders, a result cache | clone, filter, slice, evaluate | the rows a program sees are those its calls mean; every terminal agrees with the fetch |
| Relations, prefetch | `relations.py`, `prefetch.py` | reverse and many-to-many caches | `add`, `remove`, `clear`, prefetch | caches never hide what was written |
| Registry, signals | `registry.py`, `signals.py` | model tables, receivers | registration, relation resolution, dispatch | every declared relation is resolved once |
| Fields, validators | `fields.py`, `validators.py`, `db_defaults.py`, `timezone.py` | time-zone settings | conversion of values | what is read back is what was stored |
| Dialects | `dialects.py` | none | SQL text for each database | the text is accepted and means the same everywhere |
| Values and errors | `value.rs`, `error.rs` | none | Python/Rust/SQL conversion | no value is lost or re-typed |
| URLs, TLS | `backend/pool.rs`, parts of the backends | none | parsing | a parameter is honoured or refused |
| Test factory, command line | `contrib/factory.py`, `__main__.py` | none | | thin wrappers |

### How they interact

Everything that reaches a database goes Python -> `get_executor()` -> either the pooled
`Engine` or, inside `in_transaction()`, the pinned `TransactionWrapper` -> a Rust future that
pyo3 turns into an asyncio awaitable.  Three schedulers meet there:

- asyncio may cancel the awaiting task at any `await`; pyo3 then *drops the Rust future where
  it stands*, whatever is on the wire;
- tokio runs spawned tasks (`Transaction::drop`, the guards of the backends, scripts) that
  nobody awaits and nobody can cancel;
- the database executes the requests that reached it, including those whose sender has gone.

Context variables carry the pinned transaction into tasks created inside a block, so several
asyncio tasks may share one transaction and outlive it.  The migration manager works through
`in_transaction()` too, and on SQLite sends its own `COMMIT` and `BEGIN` behind the engine's
back because `PRAGMA foreign_keys` is ignored inside a transaction.

### What is hard

- Cancellation at each await of BEGIN, a statement, COMMIT, ROLLBACK, SAVEPOINT or RELEASE: the
  caller learns nothing, the database may or may not have executed it.
- The race between a transaction's owner, its `Drop` task, the drop guard of the backend and the
  next borrower of the connection.
- State that is checked before an `await` and changed after it: `_sp_stack`, `fk_off`, `_in_db`.
- The statements and row decoders of a model, one mutable `MetaInfo` that every task shares and
  that is exchanged whenever a task uses the model on a connection of another dialect.
- Backends that differ: PostgreSQL aborts a transaction at the first error and its COMMIT then
  succeeds without saving anything; Oracle has no BEGIN and no guard; SQL Server and Oracle clean
  a connection only when it is checked out again; SQLite runs BEGIN and the guard's ROLLBACK as
  two jobs of a thread pool; MySQL commits around DDL.
- Crashes and repeated runs of migrations.
- Long histories: a migration is rendered from a replayed state that no database is asked about, so
  one operation that forgets something in one direction shows only files later.
- Three-valued logic, NULLs and joins under every order of query-set calls.
- Registrations of connections that overlap at their awaits.

`PROJECT.json` lists these at their lines under "hazards", with the properties aimed at them.

## Modules

| Module | Models |
|---|---|
| `TxGuard`, `MCTxGuard` | engine, pool, pinned transactions and their guards, five backends |
| `AtomicTx` | abstract: what a transaction promises its caller |
| `TxGuard_proofs`, `TxGuardWrites_proofs` | theorems: types and who has a connection; what becomes of the writes |
| `TransactionScope`, `MCTransactionScope` | `in_transaction()`, savepoints, tasks that share a transaction |
| `TransactionScope_proofs` | theorems |
| `ConnectionRegistry`, `MCConnectionRegistry` | engines by name, routing, time zone, `generate_schemas` |
| `ConnectionRegistry_proofs` | theorems |
| `MigrationRunner`, `MCMigrationRunner` | `upgrade`, `downgrade`, SQLite's table rebuild, under faults |
| `MigrationRunner_proofs` | theorems |
| `SchemaOps` | the recorded schema state and what each operation does to it |
| `SchemaDiff` | the autodetector |
| `SchemaSql` | the statements each operation renders for each dialect |
| `SchemaCatalog` | what a database does with such a statement (external) |
| `SchemaHistory`, `MCSchema` | a developer, `makemigrations`, `upgrade` and `downgrade` over the four above |
| `CompiledPlan`, `MCCompiledPlan` | the compiled plans of a model and the operations that share them |
| `CompiledPlan_proofs` | theorems |
| `ModelPersistence`, `MCModelPersistence` | instances against their rows: save, delete, get-or-create, bulk calls, cached relations |
| `ModelPersistence_proofs`, `ModelPersistenceSafety_proofs` | statements, answers and the invariant; theorems |
| `QueryLookups` | lookups and Q trees as conditions with three truth values |
| `QuerySet` | the builder, and what its statements return: fetch, terminals, prefetch, managers |
| `QueryUse`, `MCQuery` | programs that build query sets call by call, read and write |

`SchemaHistory` extends the chain `SchemaOps` - `SchemaDiff` and `SchemaSql` - `SchemaCatalog`;
`QueryUse` extends `QuerySet`, which extends `QueryLookups`.  `TxGuard` implements `AtomicTx`, and
`TransactionScope` stands on that promise.

Definitions marked *Mutant* in a comment are not part of a model: each is a plausible bug with
which one of the definitions below it can be replaced, and each property is known to fail under
at least one of them (`PROJECT.json`, "mutants").

### TxGuard

A *call* is one Rust future that Python asked for (`Ask`).  It stands at an await point
`at[f]` - waiting for the pool, for the mutex of the `Transaction`, or for an answer of the
database - until it is done or cancelled.  The call of kind `begin` goes on to *be* the
`Transaction` object it resolved to (`at = "handle"`), and, once Python drops that object, the
task its `Drop` spawns (`"droplock"`, then `"ROLLBACK"`).

| Variable | Code |
|---|---|
| `kind`, `tx`, `at`, `ans`, `row` | the futures of `engine.rs`: method, transaction, await point, answer, row of the batch |
| `hold[c]` | the owner of connection `c`: deadpool, a call, a guard task, or nobody (closed slot) |
| `wire[c]` | requests sent on the connection and not yet executed; they outlive a dropped future |
| `session[c]`, `work[c]`, `failed[c]`, `alive[c]` | the server side: open transaction, its writes, aborted, connected |
| `closed` | `Engine.close()` was called |
| `durable`, `ended` | what survived, which transactions are over (history) |

| Actions | Code |
|---|---|
| `AskPooled`, `AskTx` | a method of `Engine` or `Transaction` is called |
| `Checkout`, `GetFails` | `pool.get()` with the backend's `recycle` |
| `LockAcquired` | the mutex is granted; a control call takes the `Option`, a statement keeps the guard |
| `Exec`, `Lose`, `Hangup` | the database executes a request, loses the connection, notices a closed one |
| `BeginReply`, `StmtReply`, `ControlReply`, `AutoReply`, `ManyReply`, `ScriptReply` | the future is polled with its answer |
| `Cancel` | asyncio cancels the task, pyo3 drops the future: `DropTx` says what the drop guard does |
| `DropHandle`, `DropTask` | Python drops the `Transaction`, `Drop` spawns and runs the rollback |
| `Close` | `Engine.close()` |

The backends differ in five definitions (`Guarded`, `RollsBackOnCheckout`, `ClosesBroken`,
`ImplicitBegin`, `InOrder`).  Left out: parameters and rows (a write is who wrote it), the
statement cache, the reset of a MySQL connection (the code disables it), and the pipelining of
PostgreSQL's `execute_many`, whose rows the model sends one by one.  Savepoints do not appear:
for the engine they are statements.

`AtomicTx` is the specification a caller relies on: a transaction's writes become durable in
one step, or never; the caller is told one outcome, after which nothing changes.  `TxGuard`
maps to it with `Told`, computed from the calls that returned.

### TransactionScope

One outermost block, the nested blocks inside it, and the tasks whose context was copied inside.
`Begin`, `Enter`, `Execute`, `Exit` and `ExitOutermost` run Python up to its next `await`; `Run`
is the engine executing the call; `Resume` is the code after the `await`; `Cancel` resumes it
with an exception instead.  So `_sp_stack` (`stack`) is read in `Exit` and written in
`ResumeEnter` and `ResumeExit`, exactly where the code does it, and other tasks act in between.
`saved` and `work` are the database's own savepoints and uncommitted writes.  The engine below
is the promise of `AtomicTx`, reduced to `status`.

### MigrationRunner

`Program` turns a migration into the statements that `upgrade` or `downgrade` awaits, with the
operations, the table rebuild, the hoisted pragmas and the row of `orm_migrations`.  `Step` runs
the next one; `Refuse`, `Fail` and `Cancel` raise, which leaves `Unwind` to be run: the except
clause of `_run_op_sql`, then `__aexit__`; `Crash` leaves nothing.  Operations are known by how
their SQL behaves (`plain`, `guarded`, `rebuild`, `python`).  The database has a committed state
`db` and the state `tx` of the open transaction; a table being rebuilt has children that an
enforced `DROP TABLE` would delete, and a temporary copy that a second rebuild would collide with.

`pinned` is the engine's view (inside `in_transaction()`), `open` the database's: between a
hoisted `COMMIT` and its `BEGIN` the two differ, which is where the hazards are.

### CompiledPlan

Every statement and every set of row decoders is known by its *stamp*: the dialect it was built
for and the version of the model's fields.  `meta[m]` is the `MetaInfo` of model `m`: the dialect
compiled last (`_compiled_for`), the attributes in use, the plans put aside (`_compiled_plans`) and
the entries of the dicts for `only()`/`defer()`, which a plan shares by reference (so an entry is
stored with the stamp of its dict).  `Compile` is `MetaInfo.compile` with its three ways: nothing to
do, restore, build.

| Actions | Code |
|---|---|
| `Fetch`, `FetchOnly`, `FetchRelated`, `FetchAnnotated` | `QuerySet._fetch` and its variants up to the await: compile, keep the decoders |
| `Get`, `Raw`, `FetchM2M`, `PrefetchM2M` | the read paths that keep no decoders; the second compiles nothing, the third only the first time |
| `Insert`, `Update`, `Delete`, `SendDelete` | `save()` and `delete()`; where join rows do not cascade, `delete()` awaits before it reads its statement |
| `HydrateHeld`, `HydrateNow`, `Acknowledge`, `Refreshed` | what follows the answer: decoders kept, or decoders the model has by now |
| `Abort`, `ChangeFields` | an error or cancellation; the fields change and `_compiled_for` is cleared |

`op[t]` keeps the stamps of the statement sent, the decoders kept and the decoders used; `stirred`
is history: another task exchanged the plan while the operation awaited.

### ConnectionRegistry

`connections`, `default`, `router` and `zone` are the module globals of `connection.py`; `engines` is
every pool ever opened.  `InitOrm`, `AddConnection`, `CloseOrm`, `GenerateSchemas` run up to their
first await; `Connected`, `ConnectFailed`, `ClosePrevious`, `CloseOne`, `CreateTable` are what
follows each one, so calls of two tasks overlap where the code lets them.  An `init` sets the zone
before its await and carries what it asked for to the engine it gets after it; `add_connection` takes
any name, "default" too, without moving `_ENGINE`.  `Route` asks the router, then the model's
`Meta.default_connection`.  `EnterTransaction` and `ExitTransaction` change the context of one task,
between its calls.  `failed`, `added`, `config` and `overlapped` are history.  Which engine a statement reaches (`GetExecutor`)
and which dialect it is rendered for (`GetDialect`) are operators of the state: the properties ask
them for every task, model and connection name in every state, instead of sending statements.

### Schema history

A field is reduced to what reaches the schema (type, nullability, default, unique, key, index, foreign
key).  `ApplyState` and `RevertState` are `state_forwards` and its reverse, `ForwardSql` and
`BackwardSql` the statements an operation renders from the replayed state, `DiffStates` the
autodetector (renames, orders, warnings), `Run` the database.  `SchemaCatalog` is the only part that
is not the repository's: when a database refuses a statement and what the catalog is afterwards, as
far as names, columns, indexes, keys and foreign keys go.  A catalog's column remembers where its
values came from (`data`), which is how the properties see a value move.  `EditModels`,
`MakeMigrations` and `WriteByHand` are the developer; `StepUp` and `StepDown` run one operation.

### ModelPersistence

A call (`Create`, `SaveFull`, `BulkUpsert`, ...) runs to its first await and leaves a statement on
the wire; `Proceed` executes it and goes on with the answer (`Resume`), `Fail` raises, `Cancel`
stops the call with the statement executed or not.  What is left to be done is a list of steps
(`todo`: save, insert, update, refresh), and `Bind...` turns a step into a statement when it is sent,
because the code reads the instance then.  The histories `clean`, `spoilt`, `lost` and `refused`
say which instances a property may still speak of: two calls on one instance at once, or a cancelled
one, are the programmer's own race, and the properties name exactly these exceptions.

`OwnId` is a primary key that callers choose in a bulk call, and a natural number like the generated ones:
`serial` comes to it, or moves past it where the database's sequence learns of a chosen key (`advances`:
MySQL and SQLite do, PostgreSQL's SERIAL and Oracle's identity do not; SQL Server's identity does).
`SavePartial` and `BulkUpdate` write any fields in `Partial`, the database default among them, read or not.

### Query sets

SQL text is kept where precedence matters: a condition is a sequence, joined by OR, of sequences
joined by AND, and only `Paren` groups.  `CompileLookup` and `CompileQ` produce it, `TextTruth`
evaluates it with NULL.  `Fetch` is the SELECT of a query set (joins, HAVING, groups, order,
window), and every terminal is the statement of its own that the code compiles.  `QueryUse` runs
programs of a few calls over small databases; `Meant` says what a lookup means without SQL, from
the guides, and the properties compare the two.

## Runs

| Run | Question | Instance |
|---|---|---|
| `tx_postgres` | the safety of transactions on PostgreSQL | one transaction with two statements and one commit or rollback, one competing caller (statement, batch of two rows or script), one connection |
| `tx_sqlite` | connections come back clean and abandoned work ends, on SQLite with the jobs of a connection in order | as above, under fairness |
| `tx_oracle` | Oracle (implicit BEGIN, no guard, two round trips) implements `AtomicTx` | a transaction with one statement, a control call, a competing caller that may begin its own |
| `tx_sqlite_late_begin` | *violation*, see below | one transaction, jobs in any order |
| `scope` | nested blocks of one task and of two in one transaction | two nested blocks, PostgreSQL |
| `scope_cancelled_release` | *violation* | one task, three nested blocks |
| `mig_sqlite` | upgrades and downgrades under faults | three files, two faults, two downgrades |
| `schema` | files, state and catalog over every history of migrations | three files, one downgrade, four declarations, five databases |
| `registry` | connections registered, closed and used by two tasks | three engines, three calls, two dialects, one replica |
| `plan_two` | a model's plans shared by two tasks on two dialects | one model, PostgreSQL and SQL Server, one change of its fields |
| `persistence` | instances and their rows | two tasks, three instances, three calls, PostgreSQL, MySQL and Oracle, one primary key that callers choose and the sequence comes to |
| `query` | what the calls on query sets mean | three calls, three models, two databases |

Some invariants are conjunctions of named parts, each commented at its definition; the parts are
given in parentheses.

- `OwnSession`: who holds a connection never meets another caller's transaction on it, left
  behind or begun late.  `CleanPool`: on backends that guard their connections nothing open even
  lies in the pool.  `WritesAreWhole` (`OnlyOwnCommit`: a write survives only if its own transaction was
  asked to commit; `AllOrNothing`: a transaction or batch survives whole).  `CommitIsTrue`: a
  `commit()` that returned saved every acknowledged statement (on PostgreSQL only if no statement
  failed, see below).  `Atomicity`: all of that as a refinement.
- `Released`, `AbandonedWorkEnds`: a dropped `Transaction` gives its connection back, and a
  transaction nobody owns ends without anybody using the connection.
- `BlocksTellTrue` (`RolledBackIsGone`, `ReleasedSurvives`): a nested block that ended with ROLLBACK TO
  leaves nothing, one that was released in a committed transaction keeps its acknowledged writes.
  `OpenBlockHasSavepoint`: no block runs without its savepoint.  The last two are about blocks that no
  second task was started in: savepoints of one transaction are a stack, so a sibling's rollback may
  take concurrent writes along.  `OverIsOver`: tasks that still hold the pin after the block ended
  write nothing.
- `RecordsAreTrue` (`AllOrNothing`, `AppliedIsPrefix`) of migrations; `KeysAreSafe` (`ChildrenSurvive`: a
  rebuild never cascades into the rows that refer to the table; `FailureRestoresKeys`: no number of
  *failing* statements puts a connection back with foreign keys off); `Converges`: upgrading again
  eventually applies everything.
- `SchemaIsRecorded` (`SchemaMatches`, `RevertIsExact`): between commands the catalog is what the applied
  files describe, and a downgrade leaves the state of the files before.  `GeneratedFilesRun`: the
  databases take the generated files of these declarations, forwards and backwards, but for the limits named
  there and the column that goes together with its index, which `schema_dropped_column.cfg` shows refused.
  `NothingLeft`: a second `makemigrations` finds nothing.  `DataIsKept` (`ValuesMove`,
  `LossIsAnnounced`): values stay in their column, follow a rename only where there is no choice, and a
  table that is recreated under another name was announced.
- `OpenIffRegistered` (`RegisteredIsOpen`, `NothingLeaks`) and `DefaultIsWhole` (`OneDefault`, `ZoneOfDefault`):
  open engines are the registered ones, the default engine is the one of that name, and the zone is
  what the `init` of that engine asked for.  `ConfigIsWhole`: no name of a config that was initialised
  leads to an older engine.  `RenderedForExecutor`: text for the database that runs it.
  `ReferencedFirst`: tables in the order of their references.
- `PlansAreOwn`: a plan that is put aside or restored is whole, of its dialect and of the current
  fields.  `SnapshotsAreOwn`: query sets and INSERTs decode rows with the plan of the statement they
  sent, whatever others compile.  `UnstirredIsOwn`: the other operations do so while nobody else
  exchanges the plan (`raw()` and cached many-to-many reads do not even then).  `NewestFields`: no
  statement of the old fields is sent after the fields changed.
- `OneRowEach` (`OwnRow`, `InsertedOnce`): an instance leads to one row, its own, however keys came back.
  `MemoryIsStored`: nothing is stamped or dropped in memory alone.  `AutomaticKept` (`DefaultKept`,
  `StampStays`): database defaults and creation times survive later saves.  `AloneNeverFails`:
  get-or-create and its bulk forms are refused only if somebody else wrote, or a generated key is one that
  a caller chose.  `BulkAnswers`: one answer per record, in order, with the truth about what was created.
  `CacheFollows`: what a relation serves without a query outlives every call that leaves its column alone,
  and is replaced by nothing but the row of that column.
- `ConditionsMeanTheCalls`: the rows of a query set are those its calls mean, but for rows with NULLs a
  negation would have to compare.  `CountsAreTrue` (`AnnotationsAreTrue`, `GroupsPartition`), 
  `TerminalsMatchFetch` (`SliceOfResult`, `CountMatches`, `EndsMatch`), `SubqueryIsNullSafe`,
  `PrefetchIsPerOwner`, `RelationsAgree`, `WritesMatchFetch`, `CreatedIsFound` (`CreateKwargsAreImplied`,
  `GetOrCreateSettles`): each statement the code compiles agrees with the fetch.

### Bounds, and why they are enough

- Calls are used once, so the number of calls bounds the run.  Every hazard of `TxGuard` needs one
  transaction, at most two statements in it (one in flight while another call arrives), one
  control call, and one other borrower of the connection.  One connection is the adversarial
  choice: with two, borrowers avoid each other.
- Two rows make a batch that can be half done.
- `MaxBlocks` bounds the nested blocks to 2 in `scope`, which has every pair: nested, one after the
  other, and of two tasks.  Each task has one acknowledged statement per block: more would only add
  members to the same sets.
- `MaxFaults = 2` lets a fault hit the handling of a fault; `MaxDowngrades = 2` lets a downgrade
  follow one that was interrupted.  Three files give each kind of migration once, in an order where
  a hole in the history would show.
- `schema`: an edit, its inverse and a third one need three files (`MaxFiles`), and one downgrade
  (`MaxDowngrades`) at any point of them reverts each kind of operation.  The four declarations differ
  pairwise in a moved primary key, a unique flag, a foreign key, a default, a changed index, composite
  indexes and constraints, a renamed column, one column replaced by two and a table that goes; four
  operations written by hand rename what the differences cannot.
- `registry`: three engines are a registered one, its replacement and another name's; three calls put
  one call between the two halves of another and one after them.  Dialects are interchangeable
  (symmetry), and so are the two zones.  The router splits reads from writes and has no opinion on where
  two of the models are written; the third is pinned by its Meta.  The models are listed in the wrong order: each refers to the next one, the last one to itself.
- `persistence`: three instances are a batch of two and a bystander; three calls are a write, a
  concurrent write and a look afterwards.  Tasks and keys are interchangeable (symmetry).  `save()`
  starts from a record with a stamp of its own and no author; the calls with defaults bring an author
  and leave the stamp out; batches repeat a key, or mix given and omitted states and primary keys.  The three
  declarations stand for PostgreSQL, MySQL and Oracle, with both ways of reading
  defaults and each kind of stamp.  The table is fresh (`Serials = {0}`) and the chosen key is 2, so that the
  sequence passes it on its second row: one batch, or two single inserts, are enough to meet it.  Partial writes name
  the relation or the column of the database default.
- `query`: three calls are a filter, something that changes its statement, and a terminal, or two
  conditions and an order.  Each terminal and each slice is evaluated in every state and costs no call.
  The two databases have NULL in every nullable column, rows without partners, partners shared and
  multiplied; `NullsFirst` and `LinksCascade` are those of SQLite and SQL Server, the harder of the
  two each time.
- `plan_two` has one model: a `MetaInfo` is never read together with another one except by
  `select_related()`, which only compiles both (the theorems cover any number).  Two dialects differ
  in all that the code asks of a dialect here (`RETURNING`, cascading join rows); one change of the
  fields is enough to leave stale plans behind.
- Symmetry is used nowhere else: each call, task and file has a role of its own.  No run with
  symmetry checks liveness.

### Fairness

`tx_sqlite` assumes weak fairness of `Progress(f)` for each future (tokio polls a woken task,
deadpool serves its waiters, and the mutex of tokio is fair), and of `Exec` and `Hangup` for each
connection (the database answers).  Nothing obliges Python to ask, cancel, drop or close.
`mig_sqlite` assumes that the runner continues while it lives, and that upgrade is eventually run
again while something is pending, which is what the guide tells the user to do.  No fairness of
faults or of downgrades.

The models of the Python layer (`TransactionScope`, `ConnectionRegistry`, `SchemaHistory`,
`ModelPersistence`, `QueryUse`, `CompiledPlan`) state no fairness: a program may stop anywhere.

`CHECK_DEADLOCK FALSE` is set wherever calls, blocks, faults and downgrades are used up: then the
program is simply finished.  `plan_two`, whose tasks can always start an operation, and `registry`, where
a task can always open or close a transaction, check for deadlock.

## Where code and documentation disagree

Two runs expect a violation, each with the line it contradicts in `PROJECT.json` ("findings"):

- `tx_sqlite_late_begin`: BEGIN IMMEDIATE and the guard's ROLLBACK are two jobs of the blocking
  pool.  If a cancelled BEGIN locks the connection second, the connection is recycled and then
  enters a transaction.
- `scope_cancelled_release`: a cancelled `release()` leaves its name on `_sp_stack`, and the exit of
  the enclosing block is refused with a message about concurrent tasks, although there is one task.

Four more counterexamples are kept as configurations to run by hand:

- `mig_cancelled_pragma.cfg` (`MCMigrationRunner`): `fk_off` (`manager.py:571`) is set after the BEGIN that
  follows `PRAGMA foreign_keys = OFF`; a cancellation there returns the connection with foreign keys
  off, which `manager.py:548-549` says never happens.  With `sync_fast_path=1` there is no await to
  cancel.
- `mig_mysql.cfg` (`MCMigrationRunner`): "Atomic migrations (the default) are all-or-nothing"
  (`docs/guides/migrations.md:50-51`) does not hold on MySQL, which commits each DDL statement.
- `plan_reads.cfg` (`MCCompiledPlan`): `Model.get` and three more read paths decode with the plan the
  model has after the await, although `queryset.py:211-215` says that read paths capture it before;
  with two tasks on two dialects a row is decoded by the wrong converters.
- `schema_dropped_column.cfg` (`MCSchema`): a column is dropped before the composite index or constraint
  over it goes (`diff.py:201`, `221-222`), although `diff.py:193` says indexes first.  SQLite refuses the file;
  on PostgreSQL its downgrade creates the index before the column.

Weaker ones were met while modelling.  Each is the reason for a condition of a property or for a
value that an instance leaves out.

*Transactions.*  SQL Server and Oracle connections can lie in the pool with an open transaction (after
a refused COMMIT, or a cancelled one on Oracle) until `recycle` runs at the next checkout, which is
why `CleanPool` is not a property of those backends.  A commit that was interrupted may have
committed although `docs/guides/transactions.md` says it is rolled back.  COMMIT of an aborted
PostgreSQL transaction returns normally: `CommitIsTrue` says so in its precondition.  A nested block of
one task that rolls back takes the concurrent writes of another along, and a release that
overlaps another task's SAVEPOINT in flight passes `_check_savepoint_order`: hence the condition on
`spawned` in `ReleasedSurvives` and `OpenBlockHasSavepoint`.

*Connections.*  Overlapping registrations of one name leak the earlier engine.  Two `init` calls that
overlap can leave the engine of one with the time zone of the other, and two with configs can share the
names between them; an `init` that fails to connect keeps the new time zone, and one that fails at a
later name of its config leaves the new default beside the old others (`overlapped`, `failed`, `config`).  `get_dialect` asks the read route even for a write.  A name that is
registered with another dialect during a transaction on it gets the new dialect's text on the old
connection.  `add_connection("default", ...)` moves the name and leaves `_ENGINE` on the engine it then
closes: statements without a name, and with `using_db("default")` the text but not the execution, no longer
follow the name (`added`, an exception of `OneDefault` and `RenderedForExecutor`).

*Schema.*  AddIndex leaves the field's own flag, so a table deleted later and brought back by a
downgrade lacks the index; RenameModel does not follow foreign keys of other tables in the state;
AddField never creates a foreign key or a primary key; names derived from a table or column are stale
after a rename, and MySQL, Oracle and SQL Server invent names the code then cannot find; CREATE INDEX
IF NOT EXISTS is skipped while a renamed table owns the name; a composite primary key is not
diffed; SQLite refuses RenameConstraint (`docs/guides/migrations.md:374-382` promises it) and some
ADD COLUMNs; a check does COLUMNs; a check does not follow a renamed column; tables that refer to each other have no order.  A changed
`auto_increment` is no change to the autodetector (`diff.py:143`) and no generated field names it (`_base.py:236-247`),
but it keeps a dropped and an added column from being one renamed (`diff.py:321`); it is not modelled.

*Instances.*  `bulk_create` overwrites an explicit auto_now_add (`models.py:2600-2611` against
`docs/guides/models-and-fields.md:237-239`).  A cancelled refresh on MySQL loses the marks of
unread defaults (`models.py:1404-1409`), and `save(update_fields=)` or `bulk_update` of a default that was never read
writes NULL over it (`models.py:1474-1486`, `2717-2733`), as `docs/guides/models-and-fields.md:352-354` says of `update_fields`
and nothing says of `bulk_update`: the `lost` of `DefaultKept`.  A full save of an instance fetched with
`only()` writes NULL for a foreign key it did not load (`models.py:1295` against
`docs/guides/querying.md:218`).  Two saves of one new instance at once insert twice.  A `bulk_create` that
failed half way refuses its own retry.  "The cache always tracks the foreign key", also after a write of the
`_id` column (`docs/guides/relations.md:110-112`): a None that a prefetch cached goes on being served after such a write
(`relations.py:184-188`), and the answer of a query for related rows that was sent before the column got its key replaces
the instance that was assigned meanwhile (`relations.py:265-277`, `prefetch.py:222-252`), so the next access queries
again (`Overtaken`, the exception of `CacheFollows`).
On PostgreSQL and Oracle a chosen primary key does not move the sequence on, and `_bulk_create_partitioned` inserts the
records that choose one first (`models.py:2190-2196`): `bulk_get_or_create` of two new records, one with the key 1, on a
fresh table is refused, and so is any later INSERT whose turn it is (`Clashes`, the exception of `AloneNeverFails`).
Two instances can then carry one chosen key, whose row one of them has inserted after the other's was
deleted: `OwnRow`, `InsertedOnce`, `StampStays` and one line of `BulkAnswers` leave that key out, and so does a refresh.
A bulk_update_or_create whose record carries a primary key
moves the row.  A save of a row another task deleted updates nothing and reports success.

*Query sets.*  `exclude()` over a reverse foreign key returns nothing when a matching child has none
(`queryset.py:1228-1233`, against `docs/guides/querying.md:54`, `:277`); equalities inside an `exclude()` drop the rows whose
NULL they compare, `__not` with F() and `__not_in` with NULL in the list too (the second half of
`ConditionsMeanTheCalls`).  `earliest()` and `latest()` append to an order that is there (`:3014-3029`, against
`querying.md:337-338`).  `first()` and `get()` overwrite `limit(0)`.  `delete()` and `update()` join only annotations
that HAVING names, and counts over two relations multiply each other (`CountsApart`).  A subquery
that selects a column with `only()` lacks the NULL guard, and loses its HAVING.  `await`, `first`, `delete` and `update`
ignore `group_by()`, which `count()` does not.  `not_in` and `gt` on a many-to-many relation compile as
equality (`:1319`).  `get_or_create()` on an offset query set does not see the rows before it.  `Meta.ordering` applies "to every
query on the model" (`docs/guides/models-and-fields.md:155`), but awaiting a many-to-many manager, and prefetching it
without a query set, join the through rows in no order (`relations.py:785-793`, `prefetch.py:387-392`): `RelationsAgree`
compares their rows, not the order.

## Proofs

| Theorem | Says | Assumptions |
|---|---|---|
| `TypeCorrect` | `Spec => []TypeOK` | the constants' assumptions only |
| `Invariance` | `Spec => []IInv` | `InOrder`: a connection executes its requests in order |
| `SessionIsOwn` | `Spec => []OwnSession` | `InOrder` |
| `PoolIsClean` | `Spec => []CleanPool` on PostgreSQL, MySQL and SQLite | `InOrder` |
| `DataInvariance` | `Spec => []DataInv` | `InOrder` |
| `WritesSurviveWhole`, `CommitsAreTrue` | `Spec => []WritesAreWhole`, `[]CommitIsTrue` | `InOrder` |
| `EffectsAreAtomic` | `Spec => Atomicity`: `TxGuard` implements `AtomicTx` | `InOrder` |
| `PlansOwn`, `SnapshotsOwn`, `UnstirredOwn` | `Spec => []PlansAreOwn`, `[]SnapshotsAreOwn`, `[]UnstirredIsOwn` of `CompiledPlan` | the constants' assumptions only |
| `FieldsNewest` | `Spec => NewestFields`, an action property | the constants' assumptions only |
| `Invariance`, `TellsTheTruth`, `SavepointsStay`, `NothingAfterTheEnd` | `Spec => []ScopeInv`, `[]BlocksTellTrue`, `[]OpenBlockHasSavepoint`, `OverIsOver` of `TransactionScope` | the constants' assumptions only |
| `Invariance`, `RegisteredExactlyOpen`, `DefaultStaysWhole`, `ConfigStaysWhole`, `RenderedWhereExecuted` | `Spec => []RegistryInv`, `[]OpenIffRegistered`, `[]DefaultIsWhole`, `[]ConfigIsWhole`, `[]RenderedForExecutor` of `ConnectionRegistry` | the constants' assumptions only |
| `ReferencedTablesFirst` | `Spec => []ReferencedFirst` of `ConnectionRegistry` | `Acyclic`: the references of the models lead to no cycle |
| `Invariance`, `KeysStaySafe`, `FirstFilesRecorded` | `Spec => []RunnerInv`, `[]KeysAreSafe`, `[]AppliedIsPrefix` of `MigrationRunner` | the constants' assumptions only |
| `RecordsStayTrue` | `Spec => []RecordsAreTrue` of `MigrationRunner` | `Backend # "mysql"`, `TouchedOnce` |
| `Invariant`, `RowOfItsOwn`, `AutomaticStays`, `AloneIsServed`, `StoredIsShown`, `BulkCallsAnswer` | `Spec => []Inv`, `[]OneRowEach`, `AutomaticKept`, `[]AloneNeverFails`, `[]MemoryIsStored`, `BulkAnswers` of `ModelPersistence` | the constants' assumptions only |

Those of `TxGuard`, in the first seven lines, hold for any sets of calls and connections, any roles, any batch size and
every backend; those of `CompiledPlan` for any tasks, models and dialects; those of `TransactionScope`
for any tasks, any depth of nesting and every backend; those of `ConnectionRegistry` for any tasks,
names, routers and dialects, any number of engines ever opened; those of `MigrationRunner` for any files
with any operations, every backend, any number of faults and downgrades; those of `ModelPersistence` for any
tasks, keys and declarations of the model, any number of instances and calls, and batches of two records.
`InOrder` is true of a network connection; for SQLite it is the assumption that
`tx_sqlite_late_begin` shows to be needed.  MySQL is excepted where it commits at each DDL statement, which
`mig_mysql.cfg` shows.  `TouchedOnce` says that no operation touches what one of an atomic file without
rebuilds touches: "done once" is a count per thing, and two files that make and remake one column
would count wrong in `AllOrNothing` without anything being wrong in the code.  `MCMigrationRunner` assumes
it, so TLC checks it on the instances.

*Why `OwnSession` is not inductive.*  A connection is in the pool; a BEGIN nobody awaits is on its
wire: `OwnSession` holds, and after a checkout and an `Exec` it does not.  What excludes this is
spread over the code, and `IInv` collects it:

- `CallShape`: where a call of each kind can stand, and that its transaction exists;
- `Ownership`: a held connection is held by one pooled call, past its checkout;
- `DeadIsEmpty`: a lost connection has no session and no requests;
- `WireShape`: a request that is awaited is the last one of the connection its transaction
  holds; a BEGIN whose sender has gone is on a connection that the guard holds or that is closed;
- `GuardLast`: the guard's ROLLBACK is the last request of its connection, so whatever was on the
  wire before it is rolled back too;
- `ControlLast`: an answered COMMIT or ROLLBACK leaves nothing on the wire and, unless the COMMIT was
  refused, no session;
- `AutoClean`, `PoolClean`, `OwnRequests`: what differs between backends.

*Argument.*  Most steps do one of three things to the connections: nothing, send a request, or give
a connection up.  `LocalStep`, `SendStep` and `GiveUpStep` prove the connection part of `IInv` once for
each; the step lemmas (one per action) reduce to them.  `Checkout`, `Exec`, `Lose` and `Hangup` have
proofs of their own.  `CallShape` is preserved by `CallShapeStep`, the types by `TypeStep`.  TLC found no
state of the `tx_...` instances outside of `IInv` before it was proved; the runs do not repeat that.

*What becomes of the writes.*  `WritesAreWhole` speaks of what is durable, and is not inductive: a write
the caller was told of may be nowhere yet, and is durable only if a COMMIT still on some wire is executed
there, once, and on nothing but that transaction's work.  `DataInv` adds to `IInv`:

- `WireInv`: what is on the wires (`Asked`, `InTurn`, `StillAwaited`, `AnsweredLast`, `OnlyWrites`, `OneControl`): the
  requests of a transaction in the order it sent them, statements before the one COMMIT or
  ROLLBACK, and nobody awaits a request twice;
- `OneSite`, `ToldOver`, `ToldOnce`: a transaction is on one connection at most, on none once its caller
  was told the end, and the caller is told once;
- `SessionInv` (`OwnWork`, `OpenSession`, `EndedOnce`): an open session works for one transaction, and a transaction that
  was committed or rolled back is one of which nothing more can come (`Live` says what may);
- `WriteInv` (`AckedKept`, `RowsKept`, `FailedBy`, `Promised`, `OnlyOwnCommit`): an acknowledged statement is in the open
  transaction's work until that ends, and then durable unless it was rolled back.

Every action is first brought to the shape of what it does to the connections and to the caller
(`Born`, `Moves`, `Sends`, `GivesUp`, `Takes`, `Serves`, `Clears`, `Closes`; lemma `StepShape`), and each part of the
invariant is then preserved by eight shapes instead of by every action on every backend.  For the
refinement, one more lemma: a step ends at most one transaction, and then it is `Commit(o)` of
`AtomicTx`; one that tells the caller is `Tell`; all others stutter.  TLC found every part
of `DataInv` to hold on small instances of the five backends before it was proved.

*`CompiledPlan`.*  `UnstirredIsOwn` is not inductive: it says nothing of the plan an operation will find
when its await ends.  `UnderWay` adds that the plan the operation compiled is still there unless another
task exchanged it.  `CompileIsOwn` and `PartialIsOwn` say what one `compile()` and one lookup in a dict
of column subsets do; every operation then is a `StartStep` (meta and a new op) or a `ResumeStep` (one
op).

*`TransactionScope`.*  `BlocksTellTrue` speaks of what is durable when all is over; why it holds was
decided savepoints earlier.  `ScopeInv` says what each part of the code contributes:

- `Outermost`, `Callers`: the outermost block is begun and ended by one task, outside its own nested
  blocks, and only those who hold the pin call;
- `Nesting`, `Entered`: the chains of blocks around each task's blocks, names used once (the
  sequence number of a savepoint), no write inside a block that was not entered;
- `SavesBefore`, `GoneIsGone`: no savepoint holds writes of its own block, so going back to it
  takes them all, and what is gone is in no savepoint that could bring it back;
- `SavesEntered`, `NestIsSaved`: the savepoints of a task alone in its transaction lie in the order of
  its blocks, and none is missing but that of a release whose answer is still to be read (a release
  of an outer savepoint would take the inner ones along);
- `WorkIsKept` (`InWork`, `InSaves`, `InDatabase`): what was acknowledged, and no block around it failed,
  is in the transaction and in every savepoint one can still go back to; after COMMIT it is
  durable.

`InWork` without `InSaves` is not inductive: the next ROLLBACK TO would lose the write.  Each of
`TypeStep`, `ControlStep`, `ContentsStep` and `KeepsStep` preserves some of these, with a lemma for each group of
actions (a task starts a call, the database runs it, the task resumes, the rest).

*`ConnectionRegistry`.*  `RegistryInv` says of a call between two awaits what it still has to do.  While
calls do not overlap there is one job (`Solo`); no engine has two names (`OneName`); the engine a
connecting call remembers is the one it will replace, and then nobody's (`Replacing`); an open engine is
registered or about to be closed (`Accounted`); and `close()` still has every registered open engine
ahead (`ClosingAll`).  The zone is the one the `init` under way asked for (`Asked`), which is what makes it
the zone of the engine once that is registered; each name of the last config leads to an engine younger than
the default one, or the `init` that reads the config has it before it (`Configuring`).  `OneDefault` also
holds while calls overlap.

`ReferencedTablesFirst` has two halves.  The order: `TopoSortModels` is a recursive function of the models
emitted so far, and nothing says of itself that such a function exists; `TopoExists` builds it by the number of
models left, which every round makes smaller (`RoundShrinks`).  Without a cycle some model is always ready
(`SomeReady`: the one of least rank), so each model follows what it refers to (`TopoFollows`), and the join
tables follow all of them (`TablesInOrder`).  The induction is over the least counterexample, in the
well-founded order of the naturals.  The place: the executor is looked up again for every table, so a
transaction of the generating task, or a "default" that `add_connection` took, could take some tables
elsewhere.  `Generating` says which tables are there, that they are where the task's statements on that
connection still go (`At`), and that the next one goes there too.
`Acyclic` is needed: a cycle of models is emitted in the order of the registry, and its first table then refers
to one that is not there.  `MCConnectionRegistry` assumes it, so TLC checks it on the instance.

*`MigrationRunner`.*  `KeysAreSafe` speaks of rows and of a connection at rest; what keeps them safe is
where the runner stands in the middle of a rebuild: at the `DROP TABLE` keys must be off, and whatever
fails from there on must find its way back to `ON` outside of any transaction.  So the proof is about
programs.  A migration's statements, however many operations it has, are a path through an automaton of
ten places (`Modes`: out of a transaction, in one, and eight between the statements of a rebuild) and a
count of the operations done; `Goes` is its edges, `ProgramLeads` says that `Program` is such a path from
`At("out", 0)` to the end.  `RunnerInv` then is one of three:

- `Resting`: nothing is left to send; the connection is as the pool expects it, and what the command has
  left to do (`Ahead`) begins where the recorded files end;
- `Running`: what is left to send is a path to the end of the file from some place; `Conn` says what
  `open`, `pinned`, `fk` and `fk_off` are at that place, `Recorded` how far the file is recorded, and `Done`
  which operations the open transaction holds (`Partly` of this file, `WholeBut` of the others);
- `Undoing`: what is left is a rest of the except clause and the ROLLBACK of `__aexit__`.

`RanConn` and `RanData` prove once for each edge that a statement which runs leads from the facts of one place
to those of the next.  `Faces` collects what any statement meets, and from it `RaiseRunner` follows for all
that can go wrong with it (`Refuse`, `Fail`, `Cancel`).  Commands rest on `KeptRange` (what is pending is
one range of the files) and on names being distinct.  TLC found no state of the three files outside of
`RunnerInv` on SQLite, PostgreSQL and MySQL before it was proved.  The attempt found one thing out about the
model: a `python` operation of a non-atomic file that is reverted twice (a crash came between it and the
DELETE) takes its count below zero, so counts are integers.

The programs are concatenations and the pending files a filter, and both are recursive functions.  Induction
over their length goes by the least counterexample (`Least`, `Induct`), a set of natural numbers, because
the library's induction theorems take an operator, which the provers cannot instantiate.

*`ModelPersistence`.*  An instance may be saved while another call uses it, deleted and inserted again with the
key it had, and a cancelled INSERT may leave a row whose key nobody learned.  So "the row with my key is
mine" cannot be an invariant about rows and instances alone: the row may be gone and come back.  `Inv`
says that there is a table `T`, longer than anything in memory, which gives every primary key generated so
far its key and its time of creation *for ever*, and that all else agrees with it: the rows (`RowsLin`), the
instances (`Holds`), and the values of every statement on its way (`StmtLin`), old as these may be.  The
rest of it (`World`) is:

- `Inserted`: a row an instance inserted is the one it has the key of, or, after a bulk call that gets no
  keys back, one with its unique key;
- `Agrees`, `TodoFits`: a statement says what its instances have, and the items still to be sent can be sent,
  but for instances that two calls use at once (`spoilt`);
- `JobOwn`, `Apart`: what a call has left to do concerns the instances it made, which are nobody else's;
- `Read`, `TodoCareful`: a database default that is None in memory is marked as unread, or its SELECT is on
  the way, so no UPDATE of all columns carries it, unless a partial write has named it (`lost`).

The chosen key is the one that `T` says nothing of: it is not generated once, and a row under it belongs to
whoever inserted it last.

`TableStep` says what each kind of statement does to the rows, the lemmas `Answer...` what each answer does to
instances and work, `BindOK` that an item becomes a statement of which `Agrees` holds, and `Go` that the call
goes on.  `JobKeeps` is the frame: a call is left alone by whatever happens to instances it does not use.

`AloneNeverFails` needs one more invariant, `Promises`, on top of `Inv`: as long as nobody else has written,
a call that looked first (`Promised`) has made instances that are stored with the key of their row or can still be
inserted, next to each other and to the rows (`Storable`), its UPDATEs keep the key of every row (`KeepsKeys`),
and the records a bulk call is about to look for name no primary key that is taken (`LooksFor`).
A batch with a chosen key and one without becomes two INSERTs, the chosen one first (`PartitionedMixed`,
`ChosenFirst`), and it stays promised that the chosen key is free until that INSERT (`ChosenNext`).
`InsertAccepted` and `UpdateAccepted` say that the database takes such statements, but for `Clashes`, `LeavesOK` that the answer
leaves as much for the next one, and `WitnessPromised` that a write of somebody else ends the promise.
TLC found no state of `persistence` outside of `Promises` before it was proved.

`MemoryIsStored` speaks of instances at rest, so its invariant, `Remembered`, has to say what holds of one in use:
a column that counts as stored is shown as it is stored, or a statement on its way writes it, or reads it
(`AtHand`).  An answer takes the statement away, and what it wrote is shown by then (`KnownInsert`, `KnownUpdate`
and the like); the next statement may stamp instances, and writes the stamp it gave (`Sends`).  An UPDATE of
several instances must not name a row twice, or the first value would win over the second: so the instances a
bulk call has work left for carry different primary keys (`Orderly`), because it found their rows by different
keys of the records (`BulkDistinct`).  TLC found no state of `persistence` outside of `Remembered` either.

`BulkAnswers` is about a step, the return of a bulk call, and what it says was decided when the SELECT was read.
`Telling` is what the call is going to report from then on: each record has the result of its key (`Paired`), what is
not stored yet is in an INSERT that was sent or still will be (`Tells`), and the row whose key a created instance
carries was inserted by it, or again by another instance that carries that key (`Originated`).  Any step of the others
leaves this true because instances keep their keys, and a new row has a new key or that of an instance that carries it
(`Carries`).

The proof found things out about the properties, all confirmed by TLC with larger bounds than those of
`persistence`.  `OwnRow` has to except a primary key the caller chose, which two instances may share.  With
`auto_now` and `auto_now_add` on one column a stale instance that is inserted again brings its old time along, so
`StampStays` speaks of `auto_now_add` alone.  `BulkAnswers` allows for a row that was deleted and
inserted again by another instance while a bulk call was under way, and, once the key that callers choose was among
the generated ones, for an upsert that takes that key after its row was deleted: an upsert does not learn its keys.  A refresh of defaults that fails counts as
`lost`, like one that is cancelled.

Only model-checked: of `MigrationRunner`, that runs converge; `CacheFollows` of `ModelPersistence`; everything of the schema history and the query sets; and all liveness, which is outside the
prover's reach, as is ENABLED.
`QueryLookups`, `QuerySet` and `QueryUse` declare recursive operators (Q trees), about which the prover
cannot reason at all.

## What is not modelled

- Conversion of values (`fields.py`, `validators.py`, `value.rs`) and the SQL text itself: strings and
  encodings of one value at a time, without state.
- URL parsing, TLS, the command line, the test factory: no state, no order.
- The synchronous fast path (`engine.rs`): one step of the only thread, which cannot be interleaved; that
  a write there blocks the event loop for the whole busy timeout, while the task that holds the lock
  waits for that loop, depends on a second connection's locks.  The password provider: one slot.
- Scripts with more than one write: `execute_script` is autocommit, and what ran before a failure stays.
- Several pools at once: transactions of different names nested in opposite order can wait for each
  other forever, and nothing in the code promises otherwise.
- Two migration runners at once: both read the same applied set, and `orm_migrations` has no unique
  constraint; nothing promises otherwise.  Contention of SQLite writers inside a rebuild.
- Migrations: a SQLite file that has an unguarded ADD COLUMN beside a table rebuild and stops after the hoisted COMMIT: it
  cannot be run again, because SQLite cannot guard the column that is there by then, although the file is atomic and
  `docs/guides/migrations.md:50-51` says that re-running is always safe.  No file of `mig_sqlite` has both.  RunSQL and RunPython change no schema state (`RunSQL` stands for both); extensions and comments; history, heads
  and the tolerant replay of unreadable files, which only print.
- Instances: signals, validators, `only()` and `defer()`, `raw()`, changes of a many-to-many relation, Prefetch of
  nothing, and one that filters or slices (its None for a row that is there).  `bulk_update` of an instance that was
  deleted; keys that a sequence skips after an upsert that inserted nothing.
- Query sets: interleaving of the statements of one call: `get_or_create()` awaits twice (`queryset.py:2873-2880`), `delete()`
  of through rows and rows is several statements, in a transaction but for a raw connection (`:3262-3265`); each is one step
  here, so these models speak of one program at a time.  `only`, `defer`, `distinct`, locks, JSON paths, text, date and regular-expression lookups, arithmetic, random order, aliases
  of `values()`, `update_or_create` on query sets, nested Prefetch paths, `to_attr` and the copies owners share, chunks of 500 keys.
- Signals and the model registry: dictionaries written at import time.

## Plan

What is left, in order of what is likely to go wrong:

1. A theorem about the cache of a relation (`CacheFollows`).
2. Many-to-many managers with their caches and `add`, `remove`, `clear`; `to_attr` and nested prefetch.
3. `MigrationRunner` with two runners, and with the operations of `SchemaHistory` instead of kinds.
4. Signals and partial instances (`only()`, `defer()`) in `ModelPersistence`.
