-------------------------- MODULE TransactionScope --------------------------
(***************************************************************************)
(* in_transaction(): one outermost block of one connection name, the       *)
(* nested blocks that open savepoints inside it, and the asyncio tasks     *)
(* that share it because their context was copied inside the block         *)
(* (connection.py: in_transaction, TransactionWrapper).                    *)
(*                                                                         *)
(* A task that awaits has its call in call[t]; the engine runs one call of *)
(* the transaction at a time (the Transaction's mutex), the task resumes   *)
(* some time later.  A cancelled call has run, or never will.              *)
(***************************************************************************)
EXTENDS Naturals, Sequences

CONSTANTS
  Tasks,      \* asyncio tasks
  Root,       \* the task that opens the outermost block
  MaxBlocks,  \* bound: nested blocks entered in all
  Backend     \* which database

ASSUME RootAssumption == Root \in Tasks
ASSUME BlocksAssumption == MaxBlocks \in Nat
ASSUME ScopeBackendAssumption == Backend \in {"postgres", "mysql", "mssql", "oracle", "sqlite"}

VARIABLES
  pinned,   \* pinned[t]: _active_tx of t's context holds the transaction
  blocks,   \* blocks[t]: the nested blocks t is inside, innermost last
  call,     \* call[t]: the call t awaits
  seq,      \* _savepoint_seq
  stack,    \* _sp_stack
  status,   \* the database transaction: "none", "open" or "over"
  saved,    \* its savepoints, each with the work at its creation
  work,     \* its uncommitted writes
  aborted,  \* a statement failed in it (PostgreSQL)
  durable,  \* the writes that survive
  acked,    \* the writes whose execute() returned
  told,     \* told[b]: how block b ended for its task; block 0 is the outermost
  around,   \* around[b]: b and the blocks it was entered in (history)
  spawned   \* the tasks created inside the block so far (history)

pyVars == <<pinned, blocks, call, seq, stack, acked, told, around, spawned>>
dbVars == <<status, saved, work, aborted, durable>>
vars   == <<pyVars, dbVars>>

Ops    == {"BEGIN", "WRITE", "SAVEPOINT", "RELEASE", "ROLLBACK_TO", "COMMIT", "ROLLBACK"}
Blocks == 0 .. MaxBlocks
Write  == [by : Tasks, in : Blocks]
Call   == [op : Ops \cup {"none"}, sp : Blocks, ans : {"none", "ok", "err"}]
Idle   == [op |-> "none", sp |-> 0, ans |-> "none"]
Awaiting(op, b) == [op |-> op, sp |-> b, ans |-> "none"]

\* PostgreSQL refuses everything after an error; the driver of mssql and oracle has
\* no RELEASE: the savepoint just stays.
Aborts    == Backend = "postgres"
NoRelease == Backend \in {"mssql", "oracle"}

Init ==
  /\ pinned  = [t \in Tasks |-> FALSE]
  /\ blocks  = [t \in Tasks |-> <<>>]
  /\ call    = [t \in Tasks |-> Idle]
  /\ seq     = 0
  /\ stack   = <<>>
  /\ status  = "none"
  /\ saved   = <<>>
  /\ work    = {}
  /\ aborted = FALSE
  /\ durable = {}
  /\ acked   = {}
  /\ told    = [b \in Blocks |-> "none"]
  /\ around  = [b \in Blocks |-> {0}]
  /\ spawned = {}

-----------------------------------------------------------------------------
(* What a running task does. *)

Running(t)   == pinned[t] /\ call[t] = Idle
Innermost(t) == IF blocks[t] = <<>> THEN 0 ELSE blocks[t][Len(blocks[t])]
Leave(t)     == blocks' = [blocks EXCEPT ![t] = SubSeq(@, 1, Len(@) - 1)]
Await(t, op, b) == call' = [call EXCEPT ![t] = Awaiting(op, b)]

\* in_transaction.__aenter__ of the outermost block.
Begin(t) ==
  /\ t = Root /\ told[0] = "none" /\ call[t] = Idle
  /\ Await(t, "BEGIN", 0)
  /\ UNCHANGED <<pinned, blocks, seq, stack, acked, told, around, spawned, dbVars>>

\* create_task() or gather() inside the block: the new task copies the context.
Spawn(t, u) ==
  /\ Running(t) /\ u # Root /\ u \notin spawned
  /\ pinned' = [pinned EXCEPT ![u] = TRUE]
  /\ spawned' = spawned \cup {u}
  /\ UNCHANGED <<blocks, call, seq, stack, acked, told, around, dbVars>>

EndTask(t) ==
  /\ Running(t) /\ t # Root /\ blocks[t] = <<>>
  /\ pinned' = [pinned EXCEPT ![t] = FALSE]
  /\ UNCHANGED <<blocks, call, seq, stack, acked, told, around, spawned, dbVars>>

\* A statement of the block t is in (bound: one acknowledged statement per block).
Execute(t) ==
  /\ Running(t) /\ [by |-> t, in |-> Innermost(t)] \notin acked
  /\ Await(t, "WRITE", Innermost(t))
  /\ UNCHANGED <<pinned, blocks, seq, stack, acked, told, around, spawned, dbVars>>

\* new_savepoint: a name nobody used before.
NewSavepoint == seq + 1

\* __aenter__ of a nested block: the new savepoint's SAVEPOINT.
Enter(t) ==
  /\ Running(t) /\ seq < MaxBlocks
  /\ seq' = NewSavepoint
  /\ around' = [around EXCEPT ![seq'] = {seq'} \cup around[Innermost(t)]]
  /\ Await(t, "SAVEPOINT", seq')
  /\ UNCHANGED <<pinned, blocks, stack, acked, told, spawned, dbVars>>

\* _check_savepoint_order: only the innermost open savepoint may be resolved.
InOrder(b) == stack = <<>> \/ stack[Len(stack)] = b

\* __aexit__ of a nested block whose body raised or not.
ExitOp(raised) == IF raised THEN "ROLLBACK_TO" ELSE "RELEASE"

Exit(t) ==
  /\ Running(t) /\ blocks[t] # <<>>
  /\ IF InOrder(Innermost(t))
       THEN /\ \E raised \in BOOLEAN : Await(t, ExitOp(raised), Innermost(t))
            /\ UNCHANGED <<blocks, told>>
       ELSE /\ Leave(t)
            /\ told' = [told EXCEPT ![Innermost(t)] = "failed"]
            /\ UNCHANGED call
  /\ UNCHANGED <<pinned, seq, stack, acked, around, spawned, dbVars>>

\* __aexit__ of the outermost block.
ExitOutermost(t) ==
  /\ Running(t) /\ t = Root /\ blocks[t] = <<>>
  /\ \E op \in {"COMMIT", "ROLLBACK"} : Await(t, op, 0)
  /\ UNCHANGED <<pinned, blocks, seq, stack, acked, told, around, spawned, dbVars>>

-----------------------------------------------------------------------------
(* The engine runs one call of the transaction. *)

Saves(b) == {i \in DOMAIN saved : saved[i].sp = b}
Answer(t, r) == call' = [call EXCEPT ![t].ans = r]
AbortIf(failure) == aborted' = (aborted \/ (failure /\ Aborts))

\* The end of the transaction: its savepoints and what it did not commit are gone.
IsOver == status' = "over" /\ saved' = <<>> /\ work' = {}

RunBegin(t, r) ==
  /\ call[t].op = "BEGIN"
  /\ status' = IF r = "ok" THEN "open" ELSE "over"
  /\ UNCHANGED <<saved, work, aborted, durable>>

\* Mutant: a statement of a finished transaction runs in autocommit.
RunOutside(t, r) ==
  /\ call[t].op = "WRITE" /\ status # "open" /\ r = "ok"
  /\ durable' = durable \cup {[by |-> t, in |-> call[t].sp]}
  /\ UNCHANGED <<status, saved, work, aborted>>

\* tx_finished: the transaction is over or its connection is lost.
RunFinished(t, r) ==
  /\ call[t].op # "BEGIN" /\ status # "open" /\ r = "err"
  /\ UNCHANGED dbVars

RunAborted(t, r) ==
  /\ status = "open" /\ aborted /\ r = "err"
  /\ call[t].op \in {"WRITE", "SAVEPOINT", "RELEASE"}
  /\ UNCHANGED dbVars

RunWrite(t, r) ==
  /\ call[t].op = "WRITE" /\ status = "open" /\ ~aborted
  /\ work' = IF r = "ok" THEN work \cup {[by |-> t, in |-> call[t].sp]} ELSE work
  /\ AbortIf(r = "err")
  /\ UNCHANGED <<status, saved, durable>>

RunSavepoint(t, r) ==
  /\ call[t].op = "SAVEPOINT" /\ status = "open" /\ ~aborted /\ r = "ok"
  /\ saved' = Append(saved, [sp |-> call[t].sp, work |-> work])
  /\ UNCHANGED <<status, work, aborted, durable>>

\* RELEASE ends a savepoint and every later one.
RunRelease(t, r) ==
  /\ call[t].op = "RELEASE" /\ status = "open" /\ ~aborted
  /\ r = IF NoRelease \/ Saves(call[t].sp) # {} THEN "ok" ELSE "err"
  /\ IF NoRelease THEN UNCHANGED saved
     ELSE IF r = "ok" THEN \E i \in Saves(call[t].sp) : saved' = SubSeq(saved, 1, i - 1)
     ELSE UNCHANGED saved
  /\ AbortIf(r = "err")
  /\ UNCHANGED <<status, work, durable>>

\* ROLLBACK TO restores the work of a savepoint, which stays, and ends the later ones.
RunRollbackTo(t, r) ==
  /\ call[t].op = "ROLLBACK_TO" /\ status = "open"
  /\ \/ /\ r = "ok"
        /\ \E i \in Saves(call[t].sp) :
             work' = saved[i].work /\ saved' = SubSeq(saved, 1, i)
        /\ aborted' = FALSE
     \/ /\ r = "err" /\ Saves(call[t].sp) = {}
        /\ AbortIf(TRUE)
        /\ UNCHANGED <<work, saved>>
  /\ UNCHANGED <<status, durable>>

\* COMMIT of an aborted transaction succeeds and saves nothing.
RunCommit(t, r) ==
  /\ call[t].op = "COMMIT" /\ status = "open"
  /\ durable' = IF r = "ok" /\ ~aborted THEN work ELSE durable
  /\ IsOver
  /\ UNCHANGED aborted

RunRollback(t, r) ==
  /\ call[t].op = "ROLLBACK" /\ status = "open"
  /\ IsOver
  /\ UNCHANGED <<aborted, durable>>

Run(t) ==
  /\ call[t].op # "none" /\ call[t].ans = "none"
  /\ \E r \in {"ok", "err"} :
       /\ Answer(t, r)
       /\ \/ RunBegin(t, r) \/ RunFinished(t, r) \/ RunAborted(t, r) \/ RunWrite(t, r)
          \/ RunSavepoint(t, r) \/ RunRelease(t, r) \/ RunRollbackTo(t, r)
          \/ RunCommit(t, r) \/ RunRollback(t, r)
  /\ UNCHANGED <<pinned, blocks, seq, stack, acked, told, around, spawned>>

\* The connection is lost, and the transaction with it.
Lose ==
  /\ status = "open"
  /\ IsOver
  /\ UNCHANGED <<pyVars, aborted, durable>>

\* Nobody refers to the Transaction any more: its Drop task rolls back.
Abandon ==
  /\ status = "open" /\ told[0] = "failed" /\ \A t \in Tasks : ~pinned[t]
  /\ IsOver
  /\ UNCHANGED <<pyVars, aborted, durable>>

-----------------------------------------------------------------------------
(* The task resumes with the answer, or with a CancelledError. *)

\* _pop_savepoint: b and everything stacked on it.
Pop(b) ==
  stack' = IF \E i \in DOMAIN stack : stack[i] = b
             THEN SubSeq(stack, 1, (CHOOSE i \in DOMAIN stack : stack[i] = b) - 1)
             ELSE stack

Tell(b, how) == told' = [told EXCEPT ![b] = how]

ResumeBegin(t, ok) ==
  /\ call[t].op = "BEGIN"
  /\ pinned' = [pinned EXCEPT ![t] = ok]
  /\ Tell(0, IF ok THEN "open" ELSE "failed")
  /\ UNCHANGED <<blocks, stack, acked>>

ResumeExecute(t, ok) ==
  /\ call[t].op = "WRITE"
  /\ acked' = IF ok THEN acked \cup {[by |-> t, in |-> call[t].sp]} ELSE acked
  /\ UNCHANGED <<pinned, blocks, stack, told>>

\* Mutant: the body runs although its savepoint was not set.
EnterAnyway(t, ok) ==
  /\ call[t].op = "SAVEPOINT"
  /\ stack' = Append(stack, call[t].sp)
  /\ blocks' = [blocks EXCEPT ![t] = Append(@, call[t].sp)]
  /\ Tell(call[t].sp, "open")
  /\ UNCHANGED <<pinned, acked>>

ResumeEnter(t, ok) ==
  /\ call[t].op = "SAVEPOINT"
  /\ IF ok THEN /\ stack' = Append(stack, call[t].sp)
                /\ blocks' = [blocks EXCEPT ![t] = Append(@, call[t].sp)]
           ELSE UNCHANGED <<stack, blocks>>
  /\ Tell(call[t].sp, IF ok THEN "open" ELSE "failed")
  /\ UNCHANGED <<pinned, acked>>

\* Mutant: an exit that failed counts as done.
ExitSwallows(t, ok) ==
  /\ call[t].op \in {"RELEASE", "ROLLBACK_TO"}
  /\ Leave(t) /\ Pop(call[t].sp)
  /\ Tell(call[t].sp, IF call[t].op = "RELEASE" THEN "released" ELSE "rolledback")
  /\ UNCHANGED <<pinned, acked>>

ResumeExit(t, ok) ==
  /\ call[t].op \in {"RELEASE", "ROLLBACK_TO"}
  /\ Leave(t)
  /\ IF ok THEN Pop(call[t].sp) ELSE UNCHANGED stack
  /\ Tell(call[t].sp, IF ~ok THEN "failed"
                      ELSE IF call[t].op = "RELEASE" THEN "released" ELSE "rolledback")
  /\ UNCHANGED <<pinned, acked>>

ResumeOutermost(t, ok) ==
  /\ call[t].op \in {"COMMIT", "ROLLBACK"}
  /\ pinned' = [pinned EXCEPT ![t] = FALSE]
  /\ Tell(0, IF ~ok THEN "failed"
             ELSE IF call[t].op = "COMMIT" THEN "committed" ELSE "rolledback")
  /\ UNCHANGED <<blocks, stack, acked>>

Resumes(t, ok) ==
  /\ \/ ResumeBegin(t, ok) \/ ResumeExecute(t, ok) \/ ResumeEnter(t, ok)
     \/ ResumeExit(t, ok) \/ ResumeOutermost(t, ok)
  /\ call' = [call EXCEPT ![t] = Idle]
  /\ UNCHANGED <<seq, around, spawned>>

Resume(t) ==
  /\ call[t].ans # "none"
  /\ Resumes(t, call[t].ans = "ok")
  /\ UNCHANGED dbVars

\* A timeout or a cancel: the call fails for the task, whatever the database did.  A
\* cancelled BEGIN is rolled back by the guard; so is a COMMIT or ROLLBACK, unless it
\* was still waiting for the Transaction's mutex.
Cancel(t) ==
  /\ call[t].op # "none"
  /\ Resumes(t, FALSE)
  /\ \/ call[t].op \in {"BEGIN", "COMMIT", "ROLLBACK"} /\ IsOver
     \/ call[t].op \notin {"BEGIN"} /\ UNCHANGED <<status, saved, work>>
  /\ UNCHANGED <<aborted, durable>>

-----------------------------------------------------------------------------
Next ==
  \/ \E t \in Tasks :
       \/ Begin(t) \/ EndTask(t) \/ Execute(t) \/ Enter(t) \/ Exit(t) \/ ExitOutermost(t)
       \/ Run(t) \/ Resume(t) \/ Cancel(t)
  \/ \E t, u \in Tasks : Spawn(t, u)
  \/ Lose \/ Abandon

Spec == Init /\ [][Next]_vars
-----------------------------------------------------------------------------
(* Properties. *)

TypeOK ==
  /\ pinned \in [Tasks -> BOOLEAN]
  /\ blocks \in [Tasks -> Seq(Blocks)]
  /\ call \in [Tasks -> Call]
  /\ seq \in Blocks
  /\ stack \in Seq(Blocks)
  /\ status \in {"none", "open", "over"}
  /\ saved \in Seq([sp : Blocks, work : SUBSET Write])
  /\ work \subseteq Write
  /\ aborted \in BOOLEAN
  /\ durable \subseteq Write
  /\ acked \subseteq Write
  /\ told \in [Blocks -> {"none", "open", "released", "rolledback", "failed", "committed"}]
  /\ around \in [Blocks -> SUBSET Blocks]
  /\ spawned \subseteq Tasks \ {Root}

\* Nothing written in a block that ended with ROLLBACK TO survives, whatever other
\* tasks did to the transaction and whichever calls were cancelled (__aexit__).
RolledBackIsGone ==
  \A w \in durable : \A b \in around[w.in] : told[b] # "rolledback"

\* The outermost block committed and every block around the write was released: an
\* acknowledged write of a block that was never shared survives, unless the transaction
\* was aborted on the way.
ReleasedSurvives ==
  \A w \in acked :
    /\ spawned = {} /\ told[0] = "committed" /\ ~aborted
    /\ \A b \in around[w.in] \ {0} : told[b] = "released"
    => w \in durable

\* A task alone inside a nested block still has its savepoint to roll back to, whatever
\* calls of it failed or were cancelled: no exit of another block took it away unnoticed
\* (_check_savepoint_order).
OpenBlockHasSavepoint ==
  \A t \in Tasks : \A i \in DOMAIN blocks[t] :
    spawned = {} /\ status = "open" /\ call[t].op \notin {"RELEASE", "ROLLBACK_TO"}
      => Saves(blocks[t][i]) # {}

\* The error message's claim: a block is refused its exit only when other tasks have
\* blocks of the same transaction open ("concurrent tasks must not share one ...").
RefusedOnlyIfShared ==
  \A t \in Tasks :
    Running(t) /\ blocks[t] # <<>> /\ ~InOrder(Innermost(t)) =>
      \E u \in Tasks \ {t} : blocks[u] # <<>>

\* A pinned task's statement runs in the transaction or fails: after the outermost
\* block ended nothing more becomes durable, whoever still holds the pin.
OverIsOver == [][told[0] \in {"committed", "rolledback"} => UNCHANGED durable]_vars

\* What the blocks told their tasks is what became of their writes: rolled back is gone,
\* committed and released is there (in_transaction.__aexit__).
BlocksTellTrue == TypeOK /\ RolledBackIsGone /\ ReleasedSurvives

=============================================================================
