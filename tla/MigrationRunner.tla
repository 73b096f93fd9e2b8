-------------------------- MODULE MigrationRunner --------------------------
(***************************************************************************)
(* upgrade() and downgrade() of one migration runner against a database:   *)
(* each migration becomes a program of statements, each of them awaited;   *)
(* any of them may fail, be cancelled (it ran, or it never will), or be    *)
(* the last one of a process that dies (migrations/manager.py).            *)
(*                                                                         *)
(* The runner's pool hands out one connection.  SQLite rebuilds a table    *)
(* to alter a column and must switch foreign_keys off outside of any       *)
(* transaction, so the runner commits and begins behind the engine's back. *)
(***************************************************************************)
EXTENDS Integers, FiniteSets, SequencesExt

CONSTANTS
  Files,          \* the migrations on disk, in order: [name, atomic, ops]
  Things,         \* what their operations create, alter or count
  Backend,        \* which database
  MaxFaults,      \* bound: failures, cancellations and crashes in all
  MaxDowngrades   \* bound: downgrade commands in all

\* "guarded" is what AddIndexIfNotExists does: IF NOT EXISTS to add, IF EXISTS to drop;
\* "plain" fails if the change is there already; "python" is a RunPython that is not
\* idempotent, "rebuild" an AlterField.
Kinds == {"plain", "guarded", "rebuild", "python"}

Names == {Files[i].name : i \in DOMAIN Files}

ASSUME FilesAssumption ==
  /\ Files \in Seq([name : Names, atomic : BOOLEAN, ops : Seq([kind : Kinds, on : Things])])
  /\ \A i, j \in DOMAIN Files : Files[i].name = Files[j].name => i = j
ASSUME MigrationBackendAssumption == Backend \in {"postgres", "mysql", "sqlite"}
ASSUME BoundsAssumption == MaxFaults \in Nat /\ MaxDowngrades \in Nat

VARIABLES
  db,         \* what the database has committed
  tx,         \* what the open transaction sees
  open,       \* a transaction is open on the connection
  pinned,     \* the runner is inside in_transaction()
  fk,         \* PRAGMA foreign_keys of the connection
  fkOff,      \* fk_off of _run_op_sql
  prog,       \* statements left of the current migration (or of its except clause)
  todo,       \* migrations left of the command: [name, to]
  cancelled,  \* a statement of the current command was cancelled (history)
  faults, downgrades

connVars == <<db, tx, open, pinned, fk, fkOff>>
vars == <<connVars, prog, todo, cancelled, faults, downgrades>>

File(n) == Files[CHOOSE i \in DOMAIN Files : Files[i].name = n]

\* SelectSeq by membership in S, written as a function.
Kept(s, S) ==
  LET kept[i \in 0 .. Len(s)] ==
        IF i = 0 THEN <<>> ELSE IF s[i] \in S THEN Append(kept[i - 1], s[i]) ELSE kept[i - 1]
  IN  kept[Len(s)]

\* has[x]: the schema change x is there, or how often data change x was made; rows:
\* orm_migrations; children: rows that refer to a rebuilt table; temp: its "_new_" copy.
State == [has : [Things -> Int], rows : Seq(Names), children : BOOLEAN, temp : BOOLEAN]

\* MySQL commits before and after every DDL statement.
TransactionalDDL == Backend # "mysql"

Init ==
  /\ db = [has |-> [x \in Things |-> 0], rows |-> <<>>, children |-> TRUE, temp |-> FALSE]
  /\ tx = db
  /\ open = FALSE /\ pinned = FALSE /\ fk = TRUE /\ fkOff = FALSE
  /\ prog = <<>> /\ todo = <<>>
  /\ cancelled = FALSE /\ faults = 0 /\ downgrades = 0

-----------------------------------------------------------------------------
(* The program of a migration: to = 1 applies it, to = 0 reverts it. *)

Stmt(op)     == [op |-> op]
Change(o, to) == [op |-> o.kind, on |-> o.on, to |-> to]

\* _run_op_sql hoists a pragma out of the pinned transaction; it notes in fk_off that
\* enforcement is off only when it is back in a transaction.
Hoisted(pragma) ==
  <<Stmt("COMMIT raw"), Stmt(pragma), [op |-> "BEGIN raw", off |-> pragma = "OFF"]>>

\* The new table is created and filled, the old one dropped, the new one renamed.
Swap(o, to) == <<Stmt("copy"), Stmt("drop"), [op |-> "swap", on |-> o.on, to |-> to]>>

\* Mutant: the rebuild runs between the two pragmas outside of any transaction.
RebuildBare(o, to) ==
  <<Stmt("COMMIT raw"), Stmt("OFF")>> \o Swap(o, to)
    \o <<Stmt("ON"), [op |-> "BEGIN raw", off |-> FALSE]>>

\* render_rebuild_table of SQLite.
Rebuild(o, to) == Hoisted("OFF") \o Swap(o, to) \o Hoisted("ON")

\* The statements of one operation; a rebuild of a non-atomic migration gets a
\* transaction of its own (_apply_op_sql).
OpProgram(o, to, atomic) ==
  IF o.kind = "rebuild" /\ Backend = "sqlite"
    THEN IF atomic THEN Rebuild(o, to)
         ELSE <<Stmt("BEGIN")>> \o Rebuild(o, to) \o <<Stmt("COMMIT")>>
    ELSE <<Change(o, to)>>

OpsProgram(m, to) ==
  LET steps == [i \in DOMAIN m.ops |-> OpProgram(m.ops[i], to, m.atomic)]
  IN  FlattenSeq(IF to = 1 THEN steps ELSE Reverse(steps))

\* One round of the loop of upgrade() or downgrade().
Program(n, to) ==
  LET body == Append(OpsProgram(File(n), to), [op |-> "record", on |-> n, to |-> to])
  IN  IF File(n).atomic THEN <<Stmt("BEGIN")>> \o body \o <<Stmt("COMMIT")>> ELSE body

-----------------------------------------------------------------------------
(* What a statement does when it runs. *)

View == IF open THEN tx ELSE db

\* The statement leaves v behind; DDL of MySQL ends the transaction.
Leaves(v, ddl) ==
  IF open /\ (TransactionalDDL \/ ~ddl)
    THEN tx' = v /\ UNCHANGED <<db, open>>
    ELSE db' = v /\ open' = FALSE /\ UNCHANGED tx

Has(x, n) == [View EXCEPT !.has[x] = n]

RunChange(s) ==
  /\ \/ s.op \in {"plain", "guarded", "rebuild"} /\ Leaves(Has(s.on, s.to), TRUE)
     \/ /\ s.op = "python"
        /\ Leaves(Has(s.on, IF s.to = 1 THEN View.has[s.on] + 1 ELSE View.has[s.on] - 1), FALSE)
     \/ /\ s.op = "record"
        /\ Leaves([View EXCEPT !.rows = IF s.to = 1 THEN Append(@, s.on)
                                        ELSE Kept(@, Names \ {s.on})], FALSE)
  /\ UNCHANGED <<pinned, fk>>

\* With foreign keys enforced, dropping a table deletes the rows that refer to it.
RunSwap(s) ==
  /\ \/ s.op = "copy" /\ Leaves([View EXCEPT !.temp = TRUE], TRUE)
     \/ s.op = "drop" /\ Leaves([View EXCEPT !.children = @ /\ ~fk], TRUE)
     \/ s.op = "swap" /\ Leaves([Has(s.on, s.to) EXCEPT !.temp = FALSE], TRUE)
  /\ UNCHANGED <<pinned, fk>>

\* foreign_keys is silently left alone inside a transaction.
RunPragma(s) ==
  /\ s.op \in {"OFF", "ON"}
  /\ fk' = IF open THEN fk ELSE s.op = "ON"
  /\ UNCHANGED <<db, tx, open, pinned>>

\* COMMIT, BEGIN and ROLLBACK sent as statements.
RunRaw(s) ==
  /\ \/ s.op = "COMMIT raw" /\ db' = tx /\ open' = FALSE /\ UNCHANGED tx
     \/ s.op = "BEGIN raw" /\ tx' = db /\ open' = TRUE /\ UNCHANGED db
     \/ s.op = "ROLLBACK raw" /\ open' = FALSE /\ UNCHANGED <<db, tx>>
  /\ UNCHANGED <<pinned, fk>>

\* in_transaction(): the engine's BEGIN, COMMIT and ROLLBACK.
RunEngine(s) ==
  /\ \/ s.op = "BEGIN" /\ tx' = db /\ open' = TRUE /\ UNCHANGED db
     \/ s.op = "COMMIT" /\ db' = View /\ open' = FALSE /\ UNCHANGED tx
     \/ s.op = "ROLLBACK" /\ open' = FALSE /\ UNCHANGED <<db, tx>>
  /\ pinned' = (s.op = "BEGIN")
  /\ UNCHANGED fk

\* What the database refuses: SQLite also a COMMIT or ROLLBACK without a transaction.
Accepts(s) ==
  /\ s.op = "plain" => View.has[s.on] # s.to
  /\ s.op = "copy" => ~View.temp
  /\ s.op \in {"COMMIT raw", "ROLLBACK raw"} => open
  /\ s.op = "BEGIN raw" => ~open
  /\ s.op \in {"COMMIT", "ROLLBACK"} => open \/ Backend # "sqlite"

Ran(s) ==
  /\ Accepts(s)
  /\ RunChange(s) \/ RunSwap(s) \/ RunPragma(s) \/ RunRaw(s) \/ RunEngine(s)

\* The statement does nothing; a connection whose COMMIT or ROLLBACK failed is closed
\* and replaced, MySQL has committed before its DDL.
Refused(s) ==
  IF s.op \in {"COMMIT", "ROLLBACK"}
    THEN open' = FALSE /\ pinned' = FALSE /\ fk' = TRUE /\ UNCHANGED <<db, tx>>
    ELSE /\ IF s.op \in {"plain", "guarded", "rebuild"} THEN Leaves(View, TRUE)
            ELSE UNCHANGED <<db, tx, open>>
         /\ UNCHANGED <<pinned, fk>>

\* The statement of a cancelled task never reached the database; the drop guard rolls
\* back what BEGIN, COMMIT or ROLLBACK left.
Dropped(s) ==
  /\ IF s.op \in {"BEGIN", "COMMIT", "ROLLBACK"} THEN open' = FALSE /\ pinned' = FALSE
     ELSE UNCHANGED <<open, pinned>>
  /\ UNCHANGED <<db, tx, fk>>

-----------------------------------------------------------------------------
(* The runner. *)

Idle == prog = <<>> /\ todo = <<>>
Applied == ToSet(db.rows)

\* upgrade(target): what is pending up to the target, in the order of the files.
Upgrade(last) ==
  /\ Idle
  /\ LET upTo == Kept(SubSeq(Files, 1, last), {m \in ToSet(Files) : m.name \notin Applied})
     IN  upTo # <<>> /\ todo' = [i \in DOMAIN upTo |-> [name |-> upTo[i].name, to |-> 1]]
  /\ UNCHANGED <<connVars, prog, cancelled, faults, downgrades>>

\* Mutant: downgrade reverts the oldest first.
OldestFirst(names) == names

NewestFirst(names) == Reverse(names)

\* downgrade(steps): the last ones applied.
Downgrade(steps) ==
  /\ Idle /\ downgrades < MaxDowngrades /\ steps <= Len(db.rows)
  /\ downgrades' = downgrades + 1
  /\ LET names == NewestFirst(SubSeq(db.rows, Len(db.rows) - steps + 1, Len(db.rows)))
     IN  todo' = [i \in DOMAIN names |-> [name |-> names[i], to |-> 0]]
  /\ UNCHANGED <<connVars, prog, cancelled, faults>>

NextMigration ==
  /\ prog = <<>> /\ todo # <<>>
  /\ prog' = Program(Head(todo).name, Head(todo).to)
  /\ todo' = Tail(todo)
  /\ UNCHANGED <<connVars, cancelled, faults, downgrades>>

\* Mutant: the except clause does not switch foreign keys on again.
ExceptForgets == <<Stmt("ROLLBACK raw"), [op |-> "BEGIN raw", off |-> FALSE]>>

\* The except clause of _run_op_sql.
Except == <<Stmt("ROLLBACK raw"), Stmt("ON"), [op |-> "BEGIN raw", off |-> FALSE]>>

\* What still runs when statement s raised: the except clause, then __aexit__.
Unwind(s) ==
  IF s.op \in {"BEGIN", "COMMIT", "ROLLBACK"} \/ ~pinned THEN <<>>
  ELSE IF fkOff THEN Append(Except, Stmt("ROLLBACK"))
  ELSE <<Stmt("ROLLBACK")>>

Raise(s) ==
  /\ prog' = Unwind(s)
  /\ todo' = <<>>
  /\ fkOff' = FALSE

\* The statement runs and the runner goes on.
Step ==
  /\ prog # <<>> /\ Ran(Head(prog))
  /\ prog' = Tail(prog)
  /\ fkOff' = IF Head(prog).op = "BEGIN raw" THEN Head(prog).off ELSE fkOff
  /\ UNCHANGED <<todo, cancelled, faults, downgrades>>

\* The database refuses the statement.
Refuse ==
  /\ prog # <<>> /\ ~Accepts(Head(prog))
  /\ Refused(Head(prog)) /\ Raise(Head(prog))
  /\ UNCHANGED <<cancelled, faults, downgrades>>

\* What can fail although the database accepts it: the pragmas, and the BEGIN and
\* ROLLBACK next to them, neither read nor write a page.
CanFail(s) == s.op \notin {"OFF", "ON", "BEGIN raw", "ROLLBACK raw"}

\* The statement fails: a full disk, a lock timeout, an error in the migration.
Fail ==
  /\ prog # <<>> /\ Accepts(Head(prog)) /\ CanFail(Head(prog)) /\ faults < MaxFaults
  /\ faults' = faults + 1
  /\ Refused(Head(prog)) /\ Raise(Head(prog))
  /\ UNCHANGED <<cancelled, downgrades>>

\* The task is cancelled while it awaits the statement.  SQLite runs a statement of a
\* transaction without an await: its effect is there all the same.
Cancel ==
  /\ prog # <<>> /\ faults < MaxFaults
  /\ faults' = faults + 1 /\ cancelled' = TRUE
  /\ \/ Ran(Head(prog)) /\ Head(prog).op # "BEGIN"
     \/ Dropped(Head(prog)) /\ (Backend # "sqlite" \/ ~pinned \/ Head(prog).op = "python")
  /\ Raise(Head(prog))
  /\ UNCHANGED downgrades

\* The process dies: its connection and open transaction are gone.
Crash ==
  /\ ~Idle /\ faults < MaxFaults
  /\ faults' = faults + 1
  /\ open' = FALSE /\ pinned' = FALSE /\ fk' = TRUE /\ fkOff' = FALSE
  /\ prog' = <<>> /\ todo' = <<>>
  /\ UNCHANGED <<db, tx, cancelled, downgrades>>

Next ==
  \/ \E i \in DOMAIN Files : Upgrade(i) \/ Downgrade(i)
  \/ NextMigration \/ Step \/ Refuse \/ Fail \/ Cancel \/ Crash

Spec == Init /\ [][Next]_vars

\* The runner goes on, and somebody runs upgrade again until nothing is pending.
Fairness == WF_vars(NextMigration \/ Step \/ Refuse) /\ WF_vars(Upgrade(Len(Files)))

FairSpec == Spec /\ Fairness
-----------------------------------------------------------------------------
(* Properties. *)

TypeOK ==
  /\ db \in State /\ tx \in State
  /\ open \in BOOLEAN /\ pinned \in BOOLEAN /\ fk \in BOOLEAN /\ fkOff \in BOOLEAN
  /\ \A i \in DOMAIN todo : todo[i].name \in Names /\ todo[i].to \in {0, 1}
  /\ cancelled \in BOOLEAN
  /\ faults \in 0 .. MaxFaults /\ downgrades \in 0 .. MaxDowngrades

Rebuilds(m) == Backend = "sqlite" /\ \E i \in DOMAIN m.ops : m.ops[i].kind = "rebuild"

\* The guide promises all or nothing of these files.
Plain(i) == Files[i].atomic /\ ~Rebuilds(Files[i])

\* No operation touches what an operation of such a file touches.
TouchedOnce ==
  \A i, k \in DOMAIN Files : \A j \in DOMAIN Files[i].ops, l \in DOMAIN Files[k].ops :
    Plain(i) /\ Files[k].ops[l].on = Files[i].ops[j].on => i = k /\ j = l

\* "Atomic migrations (the default) are all-or-nothing" (docs/guides/migrations.md):
\* recorded with every operation done exactly once, or not recorded and none done,
\* wherever the run stopped.  A rebuild on SQLite is the exception the guide names.
AllOrNothing == \A i \in DOMAIN Files :
  Plain(i) =>
    \A j \in DOMAIN Files[i].ops :
      db.has[Files[i].ops[j].on] = IF Files[i].name \in Applied THEN 1 ELSE 0

\* The migrations recorded are the first ones on disk, in order: upgrade, downgrade
\* and interruptions leave no hole.
AppliedIsPrefix ==
  /\ Len(db.rows) <= Len(Files)
  /\ \A i \in DOMAIN db.rows : db.rows[i] = Files[i].name

\* A rebuild never deletes the rows that refer to the table, in whatever state earlier
\* failures left the connection (render_rebuild_table, _run_op_sql).
ChildrenSurvive == db.children

\* The claim of _run_op_sql: the connection never goes back to the pool with foreign
\* keys switched off.
PoolEnforcesKeys == ~pinned => fk

\* It does not after any number of failing statements, if none was cancelled.
FailureRestoresKeys == ~pinned /\ ~cancelled => fk

\* "Re-running is always safe": when faults cease, running upgrade again gets
\* everything applied, whatever half-done work the interrupted runs left behind.
Converges == <>[](Applied = Names)

\* orm_migrations tells the truth after every interruption: what it lists are the first
\* files on disk, done whole, and nothing of an atomic file it does not list was done.
RecordsAreTrue == TypeOK /\ AllOrNothing /\ AppliedIsPrefix

\* Switching foreign keys off around a rebuild harms nobody: the rows that refer to the
\* table stay, and a failing statement leaves no connection with its keys off.
KeysAreSafe == ChildrenSurvive /\ FailureRestoresKeys

=============================================================================
