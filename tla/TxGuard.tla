------------------------------ MODULE TxGuard ------------------------------
(***************************************************************************)
(* The life of a pooled connection under the Rust engine: checkout, pinned *)
(* transactions with their drop guards, autocommit statements, batches and *)
(* scripts, and what cancelling the awaiting Python task does at each await *)
(* point (engine.rs and backend/{mod,postgres,mysql,mssql,oracle,sqlite}). *)
(*                                                                         *)
(* A call is one Rust future the Python layer asked for.  It is used once. *)
(* The call of kind "begin" is also the Transaction object it resolves to  *)
(* and, once Python drops that object, the task its Drop impl spawns.      *)
(***************************************************************************)
EXTENDS Naturals, Sequences, FiniteSets

CONSTANTS
  Calls,        \* futures the Python layer may ask for
  Conns,        \* pool slots (max_size of them)
  Backend,      \* which implementation of the Backend trait is running
  Roles,        \* Roles[f]: the engine methods call f may stand for
  BatchRows,    \* rows of an execute_many batch
  JobsInOrder   \* sqlite: blocking-pool jobs of a connection lock it in order

Backends == {"postgres", "mysql", "mssql", "oracle", "sqlite"}

Kinds == {"none", "begin", "stmt", "commit", "rollback", "auto", "many", "script"}

ASSUME CallsAssumption == {"none", "pool", "closed", "guard"} \cap Calls = {}
ASSUME BackendAssumption == Backend \in Backends
ASSUME RolesAssumption == Roles \in [Calls -> SUBSET (Kinds \ {"none"})]
ASSUME BatchAssumption == BatchRows \in Nat \ {0}
ASSUME OrderAssumption == JobsInOrder \in BOOLEAN

VARIABLES
  kind,      \* kind[f]: which engine method call f runs
  tx,        \* tx[f]: the transaction f works on (f itself for pooled calls)
  at,        \* at[f]: where f is: an await point, "handle", or finished
  ans,       \* ans[f]: the answer f has not consumed yet; its result when done
  row,       \* row[f]: rows of the batch sent so far
  hold,      \* hold[c]: who owns connection c: the pool, a call, the guard task
  wire,      \* wire[c]: requests sent on c that the server has not run yet
  session,   \* session[c]: the transaction open on the server side of c
  work,      \* work[c]: the uncommitted writes of that transaction
  failed,    \* failed[c]: a statement failed in it (PostgreSQL: it is aborted)
  alive,     \* alive[c]: the physical connection works
  closed,    \* Engine.close() closed the pool
  durable,   \* writes that survive
  ended      \* calls whose database transaction is over (history)

callVars  == <<kind, tx, at, ans, row>>
connVars  == <<hold, wire, session, work, failed, alive>>
storeVars == <<durable, ended>>
vars      == <<callVars, connVars, closed, storeVars>>

Pooled  == {"begin", "auto", "many", "script"}   \* kinds that check out a connection
Awaited == {"BEGIN", "WRITE", "COMMIT", "ROLLBACK"}
Places  == Awaited \cup {"new", "get", "lock", "handle", "droplock", "done", "cancelled"}
Request == [op : Awaited \cup {"GUARD"}, f : Calls, n : 0 .. BatchRows]
Writes  == [of : Calls, by : Calls, n : 0 .. BatchRows]   \* of transaction, by call

-----------------------------------------------------------------------------
(* What distinguishes the five backends. *)

\* OracleTx is a bare pooled connection; the others wrap it in a drop guard.
Guarded == Backend # "oracle"

\* A mutant, like every definition so marked: recycle rolls nothing back.
RecycleForgets == FALSE

\* Manager::recycle of mssql and oracle rolls back before handing a connection out.
RollsBackOnCheckout == Backend \in {"mssql", "oracle"}

\* What the drop guard does with a connection whose COMMIT/ROLLBACK failed.
ClosesBroken == Backend \in {"postgres", "mysql", "sqlite"}

\* Oracle opens a transaction at the first DML; there is no BEGIN.
ImplicitBegin == Backend = "oracle"

\* A network connection answers requests in order.  SQLite's BEGIN and its guard's
\* ROLLBACK are two interact() jobs that race for the connection's mutex.
InOrder == Backend # "sqlite" \/ JobsInOrder

-----------------------------------------------------------------------------
Init ==
  /\ kind    = [f \in Calls |-> "none"]
  /\ tx      = [f \in Calls |-> f]
  /\ at      = [f \in Calls |-> "new"]
  /\ ans     = [f \in Calls |-> "none"]
  /\ row     = [f \in Calls |-> 0]
  /\ hold    = [c \in Conns |-> "pool"]
  /\ wire    = [c \in Conns |-> <<>>]
  /\ session = [c \in Conns |-> "none"]
  /\ work    = [c \in Conns |-> {}]
  /\ failed  = [c \in Conns |-> FALSE]
  /\ alive   = [c \in Conns |-> TRUE]
  /\ closed  = FALSE
  /\ durable = {}
  /\ ended   = {}

-----------------------------------------------------------------------------
(* The Transaction object: inner : Arc<Mutex<Option<Box<dyn TxConn>>>>. *)

Control(h) == {f \in Calls : kind[f] \in {"commit", "rollback"} /\ tx[f] = h}

\* Mutant: a control call leaves the Option in place while it runs.
HasInnerShared(h) == \E c \in Conns : hold[c] = h

\* The Option is Some: the connection is pinned and no control call took it.
HasInner(h) ==
  /\ \E c \in Conns : hold[c] = h
  /\ \A f \in Control(h) : at[f] \notin {"COMMIT", "ROLLBACK"}
  /\ at[h] # "ROLLBACK"

\* A statement keeps the mutex across its await; a control call only to take().
LockFree(h) == \A f \in Calls : kind[f] = "stmt" /\ tx[f] = h => at[f] # "WRITE"

-----------------------------------------------------------------------------
(* Sending a request, and giving a connection up. *)

\* Call f awaits op (its n-th row) on c; a dead connection answers at once.
Send(f, c, op, n) ==
  /\ at' = [at EXCEPT ![f] = op]
  /\ row' = [row EXCEPT ![f] = n]
  /\ IF alive[c]
       THEN /\ wire' = [wire EXCEPT ![c] = Append(@, [op |-> op, f |-> f, n |-> n])]
            /\ ans' = [ans EXCEPT ![f] = "none"]
       ELSE /\ ans' = [ans EXCEPT ![f] = "err"]
            /\ UNCHANGED wire

\* Dropping the Object recycles it, or closes it when the pool is closed.
ReturnTo == IF closed THEN "closed" ELSE "pool"

Return(c) == hold' = [hold EXCEPT ![c] = ReturnTo] /\ UNCHANGED wire

\* Mutant: the transaction has no drop guard.
DropTxUnguarded(h, c, st) == Return(c)

\* The drop of a transaction whose TxState is st, on connection c of owner h.
DropTx(h, c, st) ==
  CASE ~Guarded \/ st = "Finished" \/ (st = "Broken" /\ ~ClosesBroken) ->
         Return(c)
    [] Guarded /\ st = "Broken" /\ ClosesBroken ->
         hold' = [hold EXCEPT ![c] = "closed"] /\ UNCHANGED wire
    [] Guarded /\ st = "Active" /\ alive[c] ->
         /\ hold' = [hold EXCEPT ![c] = "guard"]
         /\ wire' = [wire EXCEPT ![c] = Append(@, [op |-> "GUARD", f |-> h, n |-> 0])]
    [] Guarded /\ st = "Active" /\ ~alive[c] ->   \* its ROLLBACK fails at once
         /\ hold' = [hold EXCEPT ![c] = IF ClosesBroken THEN "closed" ELSE ReturnTo]
         /\ UNCHANGED wire

Finish(f, result) ==
  /\ at' = [at EXCEPT ![f] = "done"]
  /\ ans' = [ans EXCEPT ![f] = result]
  /\ UNCHANGED row

TxStateOf(result) == IF result = "ok" THEN "Finished" ELSE "Broken"

\* The database transaction on c is over: its session is clean again.
EndSession(c) ==
  /\ session' = [session EXCEPT ![c] = "none"]
  /\ work' = [work EXCEPT ![c] = {}]
  /\ failed' = [failed EXCEPT ![c] = FALSE]
  /\ ended' = IF session[c] = "none" THEN ended ELSE ended \cup {session[c]}

-----------------------------------------------------------------------------
(* Python asks for a future. *)

\* Engine.begin / execute / execute_many / execute_script.
AskPooled(f, k) ==
  /\ at[f] = "new" /\ k \in Pooled \cap Roles[f]
  /\ kind' = [kind EXCEPT ![f] = k]
  /\ at' = [at EXCEPT ![f] = "get"]
  /\ UNCHANGED <<tx, ans, row, connVars, closed, storeVars>>

\* Transaction.execute / commit / rollback on a Transaction that Python holds.
AskTx(f, k, h) ==
  /\ at[f] = "new" /\ k \in {"stmt", "commit", "rollback"} \cap Roles[f]
  /\ kind[h] = "begin" /\ at[h] = "handle"
  /\ kind' = [kind EXCEPT ![f] = k]
  /\ tx' = [tx EXCEPT ![f] = h]
  /\ at' = [at EXCEPT ![f] = "lock"]
  /\ UNCHANGED <<ans, row, connVars, closed, storeVars>>

\* What f does first with its connection: Oracle's begin resolves at once, a script
\* may start with the user's own BEGIN.
Opening(f) ==
  {op \in {"handle", "BEGIN", "WRITE"} :
     /\ kind[f] = "begin"  => op = IF ImplicitBegin THEN "handle" ELSE "BEGIN"
     /\ kind[f] = "many"   => op = IF ImplicitBegin THEN "WRITE" ELSE "BEGIN"
     /\ kind[f] = "auto"   => op = "WRITE"
     /\ kind[f] = "script" => op = "WRITE" \/ (op = "BEGIN" /\ ~ImplicitBegin)}

\* The pool hands f a connection after recycle: a closed slot or a dead connection
\* is replaced by a fresh one, and mssql and oracle roll an open transaction back.
Checkout(f, c) ==
  /\ at[f] = "get" /\ ~closed /\ hold[c] \in {"pool", "closed"}
  /\ hold' = [hold EXCEPT ![c] = f]
  /\ IF hold[c] = "closed" \/ ~alive[c]
       THEN /\ wire[c] = <<>> /\ session[c] = "none"
            /\ alive' = [alive EXCEPT ![c] = TRUE]
            /\ UNCHANGED <<session, work, failed, ended>>
       ELSE /\ IF RollsBackOnCheckout
                 THEN wire[c] = <<>> /\ EndSession(c)
                 ELSE UNCHANGED <<session, work, failed, ended>>
            /\ UNCHANGED alive
  /\ \E op \in Opening(f) :
       /\ at' = [at EXCEPT ![f] = op]
       /\ row' = [row EXCEPT ![f] = IF op = "WRITE" THEN 1 ELSE 0]
       /\ wire' = IF op = "handle" THEN wire
                    ELSE [wire EXCEPT ![c] = Append(@, [op |-> op, f |-> f, n |-> row'[f]])]
  /\ ans' = [ans EXCEPT ![f] = "none"]
  /\ UNCHANGED <<kind, tx, closed, durable>>

\* pool.get() on a closed pool.
GetFails(f) ==
  /\ at[f] = "get" /\ closed
  /\ Finish(f, "err")
  /\ UNCHANGED <<kind, tx, connVars, closed, storeVars>>

\* A statement or control call gets the mutex: it finds None (tx_finished) or
\* sends its statement, a control call after take().
LockAcquired(f) ==
  /\ at[f] = "lock" /\ LockFree(tx[f])
  /\ IF HasInner(tx[f])
       THEN \E c \in Conns :
              /\ hold[c] = tx[f]
              /\ \/ kind[f] = "stmt" /\ Send(f, c, "WRITE", 1)
                 \/ kind[f] = "commit" /\ Send(f, c, "COMMIT", 0)
                 \/ kind[f] = "rollback" /\ Send(f, c, "ROLLBACK", 0)
       ELSE Finish(f, "err") /\ UNCHANGED wire
  /\ UNCHANGED <<kind, tx, hold, session, work, failed, alive, closed, storeVars>>

-----------------------------------------------------------------------------
(* The database runs one request of connection c. *)

RunBegin(c, q, r) ==
  /\ q.op = "BEGIN"
  /\ session' = [session EXCEPT ![c] = IF r = "ok" /\ @ = "none" THEN tx[q.f] ELSE @]
  /\ UNCHANGED <<hold, work, failed, storeVars>>

RunWrite(c, q, r) ==
  LET write == [of |-> tx[q.f], by |-> q.f, n |-> q.n] IN
  /\ q.op = "WRITE" /\ r = "ok" /\ ~failed[c]
  /\ IF session[c] # "none" \/ ImplicitBegin
       THEN /\ work' = [work EXCEPT ![c] = @ \cup {write}]
            /\ session' = [session EXCEPT ![c] = IF @ = "none" THEN tx[q.f] ELSE @]
            /\ UNCHANGED storeVars
       ELSE /\ durable' = durable \cup {write}
            /\ ended' = ended \cup {tx[q.f]}
            /\ UNCHANGED <<work, session>>
  /\ UNCHANGED <<hold, failed>>

RunWriteFails(c, q, r) ==
  /\ q.op = "WRITE" /\ r = "err"
  /\ failed' = [failed EXCEPT ![c] = @ \/ (Backend = "postgres" /\ session[c] # "none")]
  /\ UNCHANGED <<hold, session, work, storeVars>>

\* COMMIT of an aborted transaction succeeds and rolls back; a refused COMMIT has
\* rolled back, or leaves the transaction open.
RunCommit(c, q, r) ==
  /\ q.op = "COMMIT"
  /\ r = "ok" /\ Backend \in {"sqlite", "mssql"} => session[c] # "none"
  /\ durable' = IF r = "err" \/ failed[c] THEN durable ELSE durable \cup work[c]
  /\ \/ EndSession(c)
     \/ r = "err" /\ UNCHANGED <<session, work, failed, ended>>
  /\ UNCHANGED hold

RunRollback(c, q, r) ==
  /\ q.op = "ROLLBACK"
  /\ r = "err" => Backend = "sqlite" /\ session[c] = "none"
  /\ EndSession(c)
  /\ UNCHANGED <<hold, durable>>

\* The guard task's ROLLBACK; "no transaction is active" counts as clean.
RunGuard(c, q, r) ==
  /\ q.op = "GUARD" /\ r = "ok"
  /\ EndSession(c)
  /\ hold' = [hold EXCEPT ![c] = IF @ = "guard" THEN ReturnTo ELSE @]
  /\ UNCHANGED durable

Run(c, q, r) ==
  \/ RunBegin(c, q, r)
  \/ RunWrite(c, q, r)
  \/ RunWriteFails(c, q, r)
  \/ RunCommit(c, q, r)
  \/ RunRollback(c, q, r)
  \/ RunGuard(c, q, r)

\* Request i leaves the wire; the call that still awaits it is answered r.
Serve(c, i, r) ==
  LET q == wire[c][i] IN
  /\ InOrder => i = 1
  /\ wire' = [wire EXCEPT ![c] = SubSeq(@, 1, i - 1) \o SubSeq(@, i + 1, Len(@))]
  /\ ans' = IF at[q.f] = q.op THEN [ans EXCEPT ![q.f] = r] ELSE ans

Exec(c) ==
  /\ \E i \in DOMAIN wire[c], r \in {"ok", "err"} : Serve(c, i, r) /\ Run(c, wire[c][i], r)
  /\ UNCHANGED <<kind, tx, at, row, alive, closed>>

\* The physical connection is lost: the server rolls back, the waiters get errors.
Lose(c) ==
  /\ Backend # "sqlite" /\ alive[c] /\ hold[c] # "closed"
  /\ alive' = [alive EXCEPT ![c] = FALSE]
  /\ wire' = [wire EXCEPT ![c] = <<>>]
  /\ ans' = [f \in Calls |->
               IF \E i \in DOMAIN wire[c] : wire[c][i].f = f /\ wire[c][i].op = at[f]
               THEN "err" ELSE ans[f]]
  /\ EndSession(c)
  /\ hold' = [hold EXCEPT ![c] =
                IF @ = "guard" THEN (IF ClosesBroken THEN "closed" ELSE ReturnTo) ELSE @]
  /\ UNCHANGED <<kind, tx, at, row, closed, durable>>

\* The server notices that a closed connection is gone.
Hangup(c) ==
  /\ hold[c] = "closed" /\ (session[c] # "none" \/ wire[c] # <<>>)
  /\ wire' = [wire EXCEPT ![c] = <<>>]
  /\ EndSession(c)
  /\ UNCHANGED <<callVars, hold, alive, closed, durable>>

-----------------------------------------------------------------------------
(* The future consumes an answer. *)

BeginReply(f, c) ==
  /\ kind[f] = "begin" /\ at[f] = "BEGIN" /\ ans[f] # "none" /\ hold[c] = f
  /\ IF ans[f] = "ok"
       THEN /\ at' = [at EXCEPT ![f] = "handle"]
            /\ ans' = [ans EXCEPT ![f] = "none"]
            /\ UNCHANGED <<row, hold, wire>>
       ELSE Finish(f, "err") /\ DropTx(f, c, "Active")
  /\ UNCHANGED <<kind, tx, session, work, failed, alive, closed, storeVars>>

StmtReply(f) ==
  /\ kind[f] = "stmt" /\ at[f] = "WRITE" /\ ans[f] # "none"
  /\ Finish(f, ans[f])
  /\ UNCHANGED <<kind, tx, connVars, closed, storeVars>>

\* commit, rollback, and the rollback the Transaction's Drop task runs.
ControlReply(f, c) ==
  /\ kind[f] \in {"commit", "rollback", "begin"} /\ at[f] \in {"COMMIT", "ROLLBACK"}
  /\ ans[f] # "none" /\ hold[c] = tx[f]
  /\ Finish(f, ans[f])
  /\ DropTx(tx[f], c, TxStateOf(ans[f]))
  /\ UNCHANGED <<kind, tx, session, work, failed, alive, closed, storeVars>>

\* A pooled statement; Oracle's run_execute commits in a second round trip.
AutoReply(f, c) ==
  /\ kind[f] = "auto" /\ at[f] \in {"WRITE", "COMMIT"} /\ ans[f] # "none" /\ hold[c] = f
  /\ IF ImplicitBegin /\ at[f] = "WRITE" /\ ans[f] = "ok"
       THEN Send(f, c, "COMMIT", row[f]) /\ UNCHANGED hold
       ELSE Finish(f, ans[f]) /\ Return(c)
  /\ UNCHANGED <<kind, tx, session, work, failed, alive, closed, storeVars>>

\* A row failed: the whole batch is rolled back.
RowFails(f, c) ==
  at[f] = "WRITE" /\ ans[f] = "err" /\ Send(f, c, "ROLLBACK", row[f]) /\ UNCHANGED hold

\* The batch gives its connection up through the drop guard of its transaction;
\* sqlite's batch has none, it runs without an await.
BatchOver(f, c, st) == IF Backend = "sqlite" THEN Return(c) ELSE DropTx(f, c, st)

\* execute_many: BEGIN, one statement per row, COMMIT; ROLLBACK on an error.
ManyReply(f, c) ==
  /\ kind[f] = "many" /\ at[f] \in Awaited /\ ans[f] # "none" /\ hold[c] = f
  /\ \/ /\ at[f] = "BEGIN" /\ ans[f] = "err"
        /\ Finish(f, "err") /\ BatchOver(f, c, "Active")
     \/ /\ at[f] \in {"BEGIN", "WRITE"} /\ ans[f] = "ok"
        /\ IF row[f] < BatchRows
             THEN Send(f, c, "WRITE", row[f] + 1)
             ELSE Send(f, c, "COMMIT", row[f])
        /\ UNCHANGED hold
     \/ RowFails(f, c)
     \/ /\ at[f] = "COMMIT" /\ (Backend = "sqlite" => ans[f] = "ok")
        /\ Finish(f, ans[f]) /\ BatchOver(f, c, TxStateOf(ans[f]))
     \/ /\ at[f] = "COMMIT" /\ Backend = "sqlite" /\ ans[f] = "err"
        /\ Send(f, c, "ROLLBACK", row[f]) /\ UNCHANGED hold
     \/ /\ at[f] = "ROLLBACK"
        /\ Finish(f, "err") /\ BatchOver(f, c, TxStateOf(ans[f]))
  /\ UNCHANGED <<kind, tx, session, work, failed, alive, closed, storeVars>>

\* execute_script: statements in autocommit (the user's own BEGIN included), one of
\* them a write, then
\* the trailing ROLLBACK (Oracle commits a script that succeeded); always returned.
ScriptReply(f, c) ==
  /\ kind[f] = "script" /\ at[f] \in Awaited /\ ans[f] # "none" /\ hold[c] = f
  /\ \/ /\ at[f] \in {"BEGIN", "WRITE"} /\ ans[f] = "ok" /\ row[f] = 0
        /\ Send(f, c, "WRITE", 1) /\ UNCHANGED hold
     \/ /\ at[f] = "WRITE" /\ ans[f] = "ok"
        /\ \/ Send(f, c, IF ImplicitBegin THEN "COMMIT" ELSE "ROLLBACK", row[f])
           \/ Send(f, c, "COMMIT", row[f])
        /\ UNCHANGED hold
     \/ /\ at[f] \in {"BEGIN", "WRITE"} /\ ans[f] = "err"
        /\ Send(f, c, "ROLLBACK", row[f]) /\ UNCHANGED hold
     \/ /\ at[f] \in {"COMMIT", "ROLLBACK"}
        /\ IF at[f] = "COMMIT" /\ ~ImplicitBegin
             THEN Send(f, c, "ROLLBACK", row[f]) /\ UNCHANGED hold
             ELSE Finish(f, ans[f]) /\ Return(c)
  /\ UNCHANGED <<kind, tx, session, work, failed, alive, closed, storeVars>>

-----------------------------------------------------------------------------
(* Cancellation and drops. *)

\* SQLite runs statements, batches and COMMIT/ROLLBACK inline, without an await;
\* a script and the Drop task are spawned tasks nobody can cancel.
Cancellable(f) ==
  /\ at[f] \in Awaited \cup {"get", "lock"}
  /\ Backend = "sqlite" /\ at[f] \in Awaited => kind[f] = "begin"
  /\ at[f] = "ROLLBACK" => kind[f] # "begin"
  /\ at[f] \in Awaited => kind[f] # "script"

\* asyncio cancels the awaiting task: pyo3 drops the future where it is.
Cancel(f) ==
  /\ Cancellable(f)
  /\ at' = [at EXCEPT ![f] = "cancelled"]
  /\ ans' = [ans EXCEPT ![f] = "none"]
  /\ IF at[f] \in {"get", "lock"} \/ kind[f] = "stmt"
       THEN UNCHANGED <<hold, wire>>
       ELSE \E c \in Conns :
              /\ hold[c] = tx[f]
              /\ IF kind[f] = "auto" THEN Return(c) ELSE DropTx(tx[f], c, "Active")
  /\ UNCHANGED <<kind, tx, row, session, work, failed, alive, closed, storeVars>>

\* Python drops the Transaction object: its Drop impl spawns the rollback task.
DropHandle(h) ==
  /\ at[h] = "handle"
  /\ at' = [at EXCEPT ![h] = "droplock"]
  /\ UNCHANGED <<kind, tx, ans, row, connVars, closed, storeVars>>

\* Mutant: the Drop task does not touch the connection.
DropTaskForgets(h) ==
  /\ at[h] = "droplock" /\ LockFree(h)
  /\ Finish(h, "ok")
  /\ UNCHANGED <<kind, tx, connVars, closed, storeVars>>

\* Mutant: the Drop task gives the connection back without a ROLLBACK.
DropTaskReturns(h) ==
  /\ at[h] = "droplock" /\ LockFree(h)
  /\ Finish(h, "ok")
  /\ IF HasInner(h) THEN \E c \in Conns : hold[c] = h /\ Return(c) ELSE UNCHANGED <<hold, wire>>
  /\ UNCHANGED <<kind, tx, session, work, failed, alive, closed, storeVars>>

\* The Drop task gets the mutex and rolls back what nobody took.
DropTask(h) ==
  /\ at[h] = "droplock" /\ LockFree(h)
  /\ IF HasInner(h)
       THEN \E c \in Conns : hold[c] = h /\ Send(h, c, "ROLLBACK", 0)
       ELSE Finish(h, "ok") /\ UNCHANGED wire
  /\ UNCHANGED <<kind, tx, hold, session, work, failed, alive, closed, storeVars>>

\* Engine.close: idle connections are dropped, the others when they come back.
Close ==
  /\ ~closed
  /\ closed' = TRUE
  /\ hold' = [c \in Conns |-> IF hold[c] = "pool" THEN "closed" ELSE hold[c]]
  /\ UNCHANGED <<callVars, wire, session, work, failed, alive, storeVars>>

-----------------------------------------------------------------------------
Ask(f) ==
  \/ \E k \in Pooled : AskPooled(f, k)
  \/ \E k \in {"stmt", "commit", "rollback"}, h \in Calls : AskTx(f, k, h)

Reply(f, c) ==
  \/ BeginReply(f, c)
  \/ ControlReply(f, c)
  \/ AutoReply(f, c)
  \/ ManyReply(f, c)
  \/ ScriptReply(f, c)

Progress(f) ==
  \/ \E c \in Conns : Checkout(f, c) \/ Reply(f, c)
  \/ GetFails(f) \/ LockAcquired(f) \/ StmtReply(f) \/ DropTask(f)

Next ==
  \/ \E f \in Calls : Ask(f) \/ Progress(f) \/ Cancel(f) \/ DropHandle(f)
  \/ \E c \in Conns : Exec(c) \/ Lose(c) \/ Hangup(c)
  \/ Close

Spec == Init /\ [][Next]_vars

\* Tokio polls every woken task, the database answers, and the deadpool waiters
\* are served; nothing makes Python ask, cancel, drop or close.
Fairness ==
  /\ \A f \in Calls : WF_vars(Progress(f))
  /\ \A c \in Conns : WF_vars(Exec(c)) /\ WF_vars(Hangup(c))

FairSpec == Spec /\ Fairness

-----------------------------------------------------------------------------
(* Properties. *)

TypeOK ==
  /\ kind \in [Calls -> Kinds]
  /\ tx \in [Calls -> Calls]
  /\ at \in [Calls -> Places]
  /\ ans \in [Calls -> {"none", "ok", "err"}]
  /\ row \in [Calls -> 0 .. BatchRows]
  /\ hold \in [Conns -> Calls \cup {"pool", "closed", "guard"}]
  /\ wire \in [Conns -> Seq(Request)]
  /\ session \in [Conns -> Calls \cup {"none"}]
  /\ work \in [Conns -> SUBSET Writes]
  /\ failed \in [Conns -> BOOLEAN]
  /\ alive \in [Conns -> BOOLEAN]
  /\ closed \in BOOLEAN
  /\ durable \subseteq Writes
  /\ ended \subseteq Calls

\* A transaction is open on c, or a request that opens one is still on its way.
MayBeOpen(c) ==
  session[c] # "none" \/ \E i \in DOMAIN wire[c] : wire[c][i].op = "BEGIN"

\* A connection lying in the pool never carries an open transaction, whatever was
\* cancelled around BEGIN, a statement, COMMIT or ROLLBACK (the drop guards of
\* PgTx, SqliteTx and mysql_tx_on_drop).
CleanPool == \A c \in Conns : hold[c] = "pool" => ~MayBeOpen(c)

\* Whoever holds a connection never finds another caller's transaction open on it:
\* neither left in the pool nor begun behind its back (checkout with recycle).
OwnSession ==
  \A c \in Conns : hold[c] \in Calls =>
    /\ session[c] \in {"none", hold[c]}
    /\ \A i \in DOMAIN wire[c] : wire[c][i].op = "BEGIN" => wire[c][i].f = hold[c]

Stmts(h) == {g \in Calls : kind[g] = "stmt" /\ tx[g] = h}
Durable(h) == {w \in durable : w.of = h}
Answered(f, r) == at[f] = "done" /\ ans[f] = r

\* A statement sent through a Transaction survives only if that Transaction's own
\* commit was asked for: no other borrower's COMMIT, and no autocommit, saves it.
OnlyOwnCommit ==
  \A h \in Calls : kind[h] = "begin" /\ Durable(h) # {} =>
    \E f \in Control(h) : kind[f] = "commit" /\ at[f] \in {"COMMIT", "done", "cancelled"}

\* A transaction or a batch survives whole: with one of its acknowledged
\* statements every other one, with one row of a batch all of its rows.
AllOrNothing ==
  \A h \in Calls : Durable(h) # {} =>
    /\ \A g \in Stmts(h) : Answered(g, "ok") => [of |-> h, by |-> g, n |-> 1] \in durable
    /\ kind[h] = "many" => \A n \in 1 .. BatchRows : [of |-> h, by |-> h, n |-> n] \in durable

\* A commit() that returned without an error means every acknowledged statement
\* survives.  On PostgreSQL only if none of them failed or was abandoned: COMMIT of
\* an aborted transaction succeeds and saves nothing.
CommitIsTrue ==
  \A f \in Calls :
    /\ kind[f] = "commit" /\ Answered(f, "ok")
    /\ Backend = "postgres" => \A g \in Stmts(tx[f]) : Answered(g, "ok")
    => \A g \in Stmts(tx[f]) :
         Answered(g, "ok") => [of |-> tx[f], by |-> g, n |-> 1] \in durable

\* What survives of a transaction was committed by its own caller, and is whole.
WritesAreWhole == OnlyOwnCommit /\ AllOrNothing

\* What the caller of transaction o has been told by a call that returned.
Told(o) ==
  CASE \/ \E f \in Control(o) : kind[f] = "commit" /\ Answered(f, "ok")
       \/ kind[o] \in {"auto", "many"} /\ Answered(o, "ok") -> "committed"
    [] \E f \in Control(o) : kind[f] = "rollback" /\ Answered(f, "ok") -> "rolledback"
    [] OTHER -> "nothing"

Abstract == INSTANCE AtomicTx WITH
  Owners <- Calls,
  durable <- durable,
  ended <- ended \cup {o \in Calls : Told(o) # "nothing"},
  told <- [o \in Calls |-> Told(o)]

\* The engine implements AtomicTx: effects at once and once only, and after the
\* caller was told "committed" or "rolled back" nothing of it changes any more.
Atomicity == Abstract!Spec

\* Dropping the Transaction gives its connection back, whatever call is in flight.
Released == \A h \in Calls :
  at[h] = "droplock" ~> \A c \in Conns : hold[c] # h

\* An open transaction that no caller owns is rolled back without waiting for the
\* next checkout of its connection (the background ROLLBACK of the guards).
AbandonedWorkEnds == \A c \in Conns :
  session[c] # "none" /\ hold[c] \notin Calls ~> session[c] = "none"
-----------------------------------------------------------------------------
(* The inductive invariant behind CleanPool and OwnSession (TxGuard_proofs). *)

\* Where a call of each kind can be, and which transaction it works on.
CallShape == \A f \in Calls :
  /\ kind[f] = "none"   => at[f] = "new"
  /\ kind[f] = "begin"  => at[f] \in {"get", "BEGIN", "handle", "droplock", "ROLLBACK", "done", "cancelled"}
  /\ kind[f] = "stmt"   => at[f] \in {"lock", "WRITE", "done", "cancelled"}
  /\ kind[f] = "commit" => at[f] \in {"lock", "COMMIT", "done", "cancelled"}
  /\ kind[f] = "rollback" => at[f] \in {"lock", "ROLLBACK", "done", "cancelled"}
  /\ kind[f] = "auto"   => at[f] \in {"get", "WRITE", "COMMIT", "done", "cancelled"}
  /\ kind[f] = "auto" /\ ~ImplicitBegin => at[f] # "COMMIT"
  /\ kind[f] \in {"many", "script"} => at[f] \in Awaited \cup {"get", "done", "cancelled"}
  /\ ImplicitBegin => at[f] # "BEGIN"
  /\ kind[f] \in Pooled \cup {"none"} => tx[f] = f
  /\ kind[f] \in {"stmt", "commit", "rollback"} =>
       kind[tx[f]] = "begin" /\ at[tx[f]] \in {"handle", "droplock", "ROLLBACK", "done"}

\* A connection is held by the pooled call that checked it out, and by one only.
Ownership ==
  /\ \A c \in Conns : hold[c] \in Calls =>
       kind[hold[c]] \in Pooled /\ at[hold[c]] \notin {"get", "cancelled"}
  /\ \A c, d \in Conns : hold[c] = hold[d] /\ hold[c] \in Calls => c = d

\* A dead connection has no session and answers nothing.
DeadIsEmpty == \A c \in Conns : ~alive[c] => session[c] = "none" /\ wire[c] = <<>>

\* A call has at most its current request on a wire, unless it is over; a request
\* somebody still awaits is the last of the connection its transaction holds.
WireShape == \A c \in Conns : \A i \in DOMAIN wire[c] :
  LET q == wire[c][i] IN
  /\ at[q.f] \notin {"new", "get", "lock"}
  /\ q.op # "GUARD" => at[q.f] \in {q.op, "done", "cancelled"}
  /\ at[q.f] = q.op => i = Len(wire[c]) /\ ans[q.f] = "none" /\ hold[c] = tx[q.f]
  /\ q.op = "BEGIN" =>
       hold[c] \in {"guard", "closed"} \/ (hold[c] = q.f /\ at[q.f] = "BEGIN")
  /\ q.op = "GUARD" => i = Len(wire[c]) /\ hold[c] = "guard"

\* While COMMIT or ROLLBACK is awaited it is the last request; once it is answered
\* nothing is on the wire, and the session is over unless a COMMIT was refused.
ControlLast == \A c \in Conns : \A f \in Calls :
  at[f] \in {"COMMIT", "ROLLBACK"} /\ hold[c] = tx[f] =>
    IF ans[f] = "none"
      THEN /\ wire[c] # <<>>
           /\ wire[c][Len(wire[c])].f = f /\ wire[c][Len(wire[c])].op = at[f]
      ELSE /\ wire[c] = <<>>
           /\ at[f] = "ROLLBACK" \/ ans[f] = "ok" => session[c] = "none"

\* The guard task's ROLLBACK is the last request of its connection.
GuardLast == \A c \in Conns : hold[c] = "guard" =>
  wire[c] # <<>> /\ wire[c][Len(wire[c])].op = "GUARD"

\* An autocommit statement runs outside any transaction (Oracle has its own), and a
\* batch of sqlite whose BEGIN was refused has opened none.
AutoClean == \A c \in Conns : hold[c] \in Calls =>
  /\ ~ImplicitBegin /\ kind[hold[c]] = "auto" => session[c] = "none"
  /\ Backend = "sqlite" /\ kind[hold[c]] = "many" =>
       (at[hold[c]] = "BEGIN" /\ ans[hold[c]] # "ok" => session[c] = "none")

\* What the pool holds: nothing open where the guard closes broken connections.
PoolClean == ClosesBroken => \A c \in Conns : hold[c] = "pool" => session[c] = "none"

\* Oracle hands a connection out with nothing on the wire: every later request is
\* its holder's.
OwnRequests == ImplicitBegin =>
  \A c \in Conns : hold[c] \in Calls => \A i \in DOMAIN wire[c] : tx[wire[c][i].f] = hold[c]

IInv ==
  /\ TypeOK /\ CallShape /\ Ownership /\ DeadIsEmpty /\ WireShape /\ ControlLast
  /\ GuardLast /\ AutoClean /\ PoolClean /\ OwnRequests /\ OwnSession
=============================================================================
