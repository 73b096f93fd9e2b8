--------------------------- MODULE SchemaHistory ---------------------------
(***************************************************************************)
(* The life of a schema: the models are edited, makemigrations writes the  *)
(* difference to a file, upgrade and downgrade run files operation by      *)
(* operation, each rendered for the dialect from the replayed state        *)
(* (migrations/manager.py).  Failures of a statement end the behaviour:    *)
(* what the runner does about them is in MigrationRunner.                  *)
(***************************************************************************)
EXTENDS SchemaDiff, SchemaCatalog

CONSTANTS
  Declarations,   \* the model declarations a developer may arrive at
  ByHand,         \* operations a developer may write by hand
  Databases,      \* the dialects considered
  MaxFiles,       \* bound: migration files
  MaxDowngrades   \* bound: downgrades

ASSUME DatabasesAssumption == Databases \subseteq Dialects
ASSUME HistoryBounds == MaxFiles \in Nat /\ MaxDowngrades \in Nat

VARIABLES
  dialect,
  models,     \* the declarations now
  files,      \* the migration files, in order: [ops, auto, warned]
  applied,    \* how many of them orm_migrations lists
  phase,      \* "idle", "up", "down" or "failed"
  pos,        \* operations of the current file already run
  state,      \* the state the runner replays and advances
  db,         \* the catalog
  before,     \* the catalog when the current file began (history)
  refused,    \* why a statement was refused (history)
  downgrades

runner == <<applied, phase, pos, state, db, before, refused, downgrades>>
vars == <<dialect, models, files, runner>>

Init ==
  /\ dialect \in Databases
  /\ models = <<>> /\ files = <<>>
  /\ applied = 0 /\ phase = "idle" /\ pos = 0
  /\ state = <<>> /\ db = <<>> /\ before = <<>> /\ refused = "" /\ downgrades = 0

EditModels ==
  /\ phase = "idle" /\ Len(files) < MaxFiles
  /\ models' \in Declarations \ {models}
  /\ UNCHANGED <<dialect, files, runner>>

\* The code's order of tables is one of these, whichever the sets are walked in.
Differences(old, new) ==
  {DiffStates(old, new, create, drop) :
     create \in TopoOrders(DOMAIN new \ DOMAIN old, new),
     drop \in TopoOrders(DOMAIN old \ DOMAIN new, old)}

\* Refused when no recorded table would be left, unless that is allowed.
DropsEverything(old, new) == DOMAIN old # {} /\ DOMAIN old \cap DOMAIN new = {}

MakeMigrations ==
  /\ phase = "idle" /\ Len(files) < MaxFiles
  /\ LET recorded == Replay(files)
         target == ModelState(models)
     IN /\ ~DropsEverything(recorded, target)
        /\ \E ops \in Differences(recorded, target) :
             /\ ops # <<>>
             /\ files' = Append(files, [ops |-> ops, auto |-> TRUE,
                    warned |-> TableRecreateWarnings(recorded, target)])
  /\ UNCHANGED <<dialect, models, runner>>

\* A file written by hand, for a state its operation fits.
Fits(op, s) ==
  CASE op.op = "RenameModel" -> op.old \in DOMAIN s /\ op.new \notin DOMAIN s
    [] op.op = "RenameField" ->
         op.table \in DOMAIN s /\ op.old \in DOMAIN s[op.table].fields
                               /\ op.new \notin DOMAIN s[op.table].fields
    [] op.op = "RenameConstraint" ->
         op.table \in DOMAIN s /\ \E k \in s[op.table].constraints : k.name = op.old
    [] OTHER -> TRUE

WriteByHand ==
  /\ phase = "idle" /\ Len(files) < MaxFiles
  /\ \E op \in ByHand :
       /\ Fits(op, Replay(files))
       /\ files' = Append(files, [ops |-> <<op>>, auto |-> FALSE, warned |-> {}])
  /\ UNCHANGED <<dialect, models, runner>>

\* Every column of the catalog, marked with the place its values are in now.
Marked(cat) ==
  [t \in DOMAIN cat |-> [cat[t] EXCEPT
      !.cols = [c \in DOMAIN @ |-> [@[c] EXCEPT !.data = <<t, c>>]]]]

Begin(next, file) ==
  /\ phase' = next /\ pos' = 0
  /\ state' = Replay(SubSeq(files, 1, file))
  /\ db' = Marked(db) /\ before' = Marked(db)

BeginUpgrade ==
  /\ phase = "idle" /\ applied < Len(files)
  /\ Begin("up", applied)
  /\ UNCHANGED <<dialect, models, files, applied, refused, downgrades>>

BeginDowngrade ==
  /\ phase = "idle" /\ applied > 0 /\ downgrades < MaxDowngrades
  /\ Begin("down", applied)
  /\ downgrades' = downgrades + 1
  /\ UNCHANGED <<dialect, models, files, applied, refused>>

\* One operation: its statements, then its effect on the state.
Operate(statements, newState) ==
  LET r == Run(dialect, statements, db)
  IN /\ db' = r.db /\ refused' = r.refused
     /\ IF r.refused = "" THEN state' = newState /\ pos' = pos + 1 /\ UNCHANGED phase
                          ELSE phase' = "failed" /\ UNCHANGED <<state, pos>>
     /\ UNCHANGED <<dialect, models, files, applied, before, downgrades>>

StepUp ==
  /\ phase = "up" /\ pos < Len(files[applied + 1].ops)
  /\ LET op == files[applied + 1].ops[pos + 1]
     IN Operate(ForwardSql(dialect, op, state), ApplyState(op, state))

StepDown ==
  /\ phase = "down" /\ pos < Len(files[applied].ops)
  /\ LET op == Reverse(files[applied].ops)[pos + 1]
     IN Operate(BackwardSql(dialect, op, state), RevertState(op, state))

Finish ==
  /\ \/ phase = "up" /\ pos = Len(files[applied + 1].ops) /\ applied' = applied + 1
     \/ phase = "down" /\ pos = Len(files[applied].ops) /\ applied' = applied - 1
  /\ phase' = "idle" /\ pos' = 0
  /\ UNCHANGED <<dialect, models, files, state, db, before, refused, downgrades>>

Next == \/ EditModels \/ MakeMigrations \/ WriteByHand
        \/ BeginUpgrade \/ BeginDowngrade \/ StepUp \/ StepDown \/ Finish

Spec == Init /\ [][Next]_vars

-----------------------------------------------------------------------------
(* Properties. *)

TypeOK ==
  /\ dialect \in Dialects /\ phase \in {"idle", "up", "down", "failed"}
  /\ models \in Declarations \cup {<<>>}
  /\ applied \in 0 .. Len(files) /\ pos \in Nat
  /\ (phase = "failed") = (refused # "")

\* The schema a state describes, and the schema a catalog has, names aside.
Shapes(objs) == {<<obj.type, obj.cols, obj.ref>> : obj \in objs}

Definition(col) == [type |-> col.type, null |-> col.null, default |-> col.default]

Described(s) ==
  [t \in DOMAIN s |->
     LET ts == TSpec(s[t])
         indexes == IndexStmts(t, ts, FALSE)
     IN [cols |-> Columns(ts),
         objs |-> Shapes(TableObjs(dialect, t, ts)
                         \cup {indexes[i].obj : i \in DOMAIN indexes})]]

Actual ==
  [t \in DOMAIN db |-> [cols |-> [c \in DOMAIN db[t].cols |-> Definition(db[t].cols[c])],
                        objs |-> Shapes(db[t].objs)]]

\* Between commands the database has the schema the applied migrations describe: no
\* object of an operation is forgotten, left behind or lost with a rebuilt table,
\* whichever way the files were run.
SchemaMatches == phase = "idle" => Actual = Described(Replay(SubSeq(files, 1, applied)))

\* A downgrade undoes what its file recorded: the state it leaves is the state of the
\* files that are still applied, which the next command replays.
RevertIsExact == phase = "idle" => state = Replay(SubSeq(files, 1, applied))

\* makemigrations leaves nothing to detect: the files then describe the models, so a
\* second makemigrations writes nothing.
NothingLeft ==
  [][Len(files') > Len(files) /\ files'[Len(files')].auto
        => [t \in DOMAIN Replay(files') |-> TSpec(Replay(files')[t])]
           = [t \in DOMAIN ModelState(models) |-> TSpec(ModelState(models)[t])]]_vars

\* A generated migration keeps the values of every column that both schemas have, and a
\* new column has values only if it is the one place they can have gone: it is the only
\* new column of the definition of the only column that went.
SoleHeir(t, r, c) ==
  LET old == Replay(SubSeq(files, 1, applied - 1))[t].fields
      new == Replay(SubSeq(files, 1, applied))[t].fields
      Like(x) == ColumnSpec(x) = ColumnSpec(new[c])
  IN /\ {x \in DOMAIN old \ DOMAIN new : Like(old[x])} = {r}
     /\ {x \in DOMAIN new \ DOMAIN old : Like(new[x])} = {c}

ValuesMove ==
  [][phase = "up" /\ phase' = "idle" /\ files[applied'].auto =>
       \A t \in DOMAIN db \cap DOMAIN before : \A c \in DOMAIN db[t].cols :
         IF c \in DOMAIN before[t].cols THEN db[t].cols[c].data = <<t, c>>
         ELSE \/ db[t].cols[c].data = <<>>
              \/ \E r \in DOMAIN before[t].cols :
                   db[t].cols[c].data = <<t, r>> /\ SoleHeir(t, r, c)']_vars

\* A generated migration that takes a table away while one of the same columns and keys
\* appears was written with a warning: no rename of a table loses its rows unannounced.
Outline(cat, t) == [cols |-> [c \in DOMAIN cat[t].cols |-> Definition(cat[t].cols[c])],
                    keys |-> Shapes({obj \in cat[t].objs : obj.type \in {"pk", "fk"}})]

LossIsAnnounced ==
  [][phase = "up" /\ phase' = "idle" /\ files[applied'].auto =>
       \A t \in DOMAIN before \ DOMAIN db, u \in DOMAIN db \ DOMAIN before :
         Outline(before, t) = Outline(db, u) => <<t, u>> \in files[applied'].warned]_vars

\* What a database may refuse of a generated file: a constraint dropped by the derived
\* name when the database had named it itself, and what SQL Server cannot do.
Limits(d) == CASE d \in {"mysql", "oracle"} -> {"no such name"}
               [] d = "mssql" -> {"no such name", "covered", "unsupported"}
               [] OTHER -> {}

\* A migration that makemigrations wrote can be applied to the schema it was made for,
\* and then reverted, but for the limits of three databases.
GeneratedFilesRun ==
  phase = "failed" /\ (\A i \in DOMAIN files : files[i].auto) => refused \in Limits(dialect)

\* Between commands files, replayed state and database agree.
SchemaIsRecorded == TypeOK /\ SchemaMatches /\ RevertIsExact

\* No generated migration loses or misplaces a value without a warning.
DataIsKept == ValuesMove /\ LossIsAnnounced

=============================================================================
