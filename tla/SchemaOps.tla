----------------------------- MODULE SchemaOps -----------------------------
(***************************************************************************)
(* The recorded schema state of the migration system and what each         *)
(* operation of a migration file does to it (migrations/_base.py and       *)
(* migrations/operations.py).                                              *)
(*                                                                         *)
(* A state maps the tables it holds to table states.  A field is reduced   *)
(* to what reaches the schema: its column type with its parameters, its    *)
(* nullability and default ("" for none), its flags and its foreign-key    *)
(* target, one value for the table, its key and ON DELETE.  auto_increment *)
(* is left out: no operation carries it, and _alterable does not see it.   *)
(* Lists whose order never reaches the schema are sets.                    *)
(***************************************************************************)
EXTENDS Naturals, SequencesExt

CONSTANTS NoTable    \* stands for "not a foreign key"

Each(S, Op(_)) == LET q == SetToSeq(S) IN [i \in DOMAIN q |-> Op(q[i])]

ColumnSpec(f) == [type |-> f.type, null |-> f.null, default |-> f.default,
                  unique |-> f.unique, pk |-> f.pk, fk |-> f.fk]

DerivedIndexes(fields) ==
    {c \in DOMAIN fields : fields[c].index /\ ~fields[c].unique /\ ~fields[c].pk}

NewTState(fields, cpk) ==
    [fields |-> fields, cpk |-> cpk, indexes |-> DerivedIndexes(fields),
     composite |-> <<>>, constraints |-> {}]

\* The table spec the renderers take: the composite key, else the pk column.
KeyOf(ts) ==
    IF ts.cpk # <<>> THEN ts.cpk
                     ELSE SetToSeq({c \in DOMAIN ts.fields : ts.fields[c].pk})

TSpec(ts) ==
    [columns |-> [c \in DOMAIN ts.fields |-> ColumnSpec(ts.fields[c])],
     key |-> KeyOf(ts), indexes |-> ts.indexes,
     composite |-> ts.composite, constraints |-> ts.constraints]

\* Column lists follow a rename.
Follow(cols, old, new) == [i \in DOMAIN cols |-> IF cols[i] = old THEN new ELSE cols[i]]

RenameKey(f, old, new) ==
    [k \in (DOMAIN f \ {old}) \cup {new} |-> IF k = new THEN f[old] ELSE f[k]]

RenameInTable(ts, old, new) ==
    [fields      |-> RenameKey(ts.fields, old, new),
     cpk         |-> Follow(ts.cpk, old, new),
     indexes     |-> {IF c = old THEN new ELSE c : c \in ts.indexes},
     composite   |-> [n \in DOMAIN ts.composite |-> Follow(ts.composite[n], old, new)],
     \* a check is SQL text and keeps the old name
     constraints |-> {IF k.kind = "check" THEN k ELSE [k EXCEPT !.cols = Follow(@, old, new)] :
                        k \in ts.constraints}]

-----------------------------------------------------------------------------
(***************************************************************************)
(* Operations.  An Add and its Remove are one kind of operation read       *)
(* forwards or, with "reverse", backwards, as in _ReversibleOp; CreateModel *)
(* and DeleteModel are such a pair too.  "safe" is the IF [NOT] EXISTS      *)
(* guard of the forward action.                                            *)
(***************************************************************************)
Table(reverse, t, ts) == [op |-> "Table", reverse |-> reverse, safe |-> TRUE, table |-> t,
    fields |-> ts.fields, cpk |-> ts.cpk, composite |-> ts.composite,
    constraints |-> ts.constraints]
Column(reverse, t, c, f) == [op |-> "Column", reverse |-> reverse, safe |-> TRUE,
    table |-> t, name |-> c, field |-> f]
Index(reverse, t, c) == [op |-> "Index", reverse |-> reverse, safe |-> ~reverse,
    table |-> t, name |-> c]
Composite(reverse, t, n, cols) == [op |-> "Composite", reverse |-> reverse, safe |-> ~reverse,
    table |-> t, name |-> n, cols |-> cols]
ConstraintOp(reverse, t, k) == [op |-> "Constraint", reverse |-> reverse, safe |-> FALSE,
    table |-> t, constraint |-> k]
AlterField(t, c, new, old) == [op |-> "AlterField", table |-> t, name |-> c,
    field |-> new, old |-> old]
RenameModel(old, new) == [op |-> "RenameModel", old |-> old, new |-> new]
RenameField(t, old, new) == [op |-> "RenameField", table |-> t, old |-> old, new |-> new]
RenameIndex(t, c, old, new) == [op |-> "RenameIndex", table |-> t, name |-> c,
    old |-> old, new |-> new]
RenameConstraint(t, old, new) == [op |-> "RenameConstraint", table |-> t,
    old |-> old, new |-> new]
RunSQL == [op |-> "RunSQL"]     \* also CreateExtension and RunPython: no schema state

Reversible(op) == op.op \in {"Table", "Column", "Index", "Composite", "Constraint"}

RenamedConstraints(ks, old, new) ==
    {IF k.name = old THEN [k EXCEPT !.name = new] ELSE k : k \in ks}

\* What the create/add side of a pair does to the state and, undone, the drop side.
TableState(op, s, undo) ==
    IF undo THEN Restrict(s, DOMAIN s \ {op.table})
    ELSE (op.table :> [NewTState(op.fields, op.cpk) EXCEPT
             !.composite = op.composite, !.constraints = op.constraints]) @@ s

ColumnState(op, s, undo) ==
    [s EXCEPT ![op.table].fields =
        IF undo THEN Restrict(@, DOMAIN @ \ {op.name}) ELSE (op.name :> op.field) @@ @]

\* The field's own index flag stays as it was.
IndexState(op, s, undo) ==
    [s EXCEPT ![op.table].indexes = IF undo THEN @ \ {op.name} ELSE @ \cup {op.name}]

CompositeState(op, s, undo) ==
    [s EXCEPT ![op.table].composite =
        IF undo THEN Restrict(@, DOMAIN @ \ {op.name}) ELSE (op.name :> op.cols) @@ @]

ConstraintState(op, s, undo) ==
    [s EXCEPT ![op.table].constraints =
        IF undo THEN {k \in @ : k.name # op.constraint.name} ELSE @ \cup {op.constraint}]

PairState(op, s, undo) ==
    CASE op.op = "Table"      -> TableState(op, s, undo)
      [] op.op = "Column"     -> ColumnState(op, s, undo)
      [] op.op = "Index"      -> IndexState(op, s, undo)
      [] op.op = "Composite"  -> CompositeState(op, s, undo)
      [] op.op = "Constraint" -> ConstraintState(op, s, undo)

ApplyState(op, s) ==
    CASE Reversible(op) -> PairState(op, s, op.reverse)
      [] op.op = "AlterField" -> [s EXCEPT ![op.table].fields[op.name] = op.field]
      [] op.op = "RenameModel" -> RenameKey(s, op.old, op.new)
      [] op.op = "RenameField" -> [s EXCEPT ![op.table] = RenameInTable(@, op.old, op.new)]
      [] op.op = "RenameConstraint" ->
           [s EXCEPT ![op.table].constraints = RenamedConstraints(@, op.old, op.new)]
      [] OTHER -> s

RevertState(op, s) ==
    CASE Reversible(op) -> PairState(op, s, ~op.reverse)
      [] op.op = "AlterField" -> [s EXCEPT ![op.table].fields[op.name] = op.old]
      [] op.op = "RenameModel" -> RenameKey(s, op.new, op.old)
      [] op.op = "RenameField" -> [s EXCEPT ![op.table] = RenameInTable(@, op.new, op.old)]
      [] op.op = "RenameConstraint" ->
           [s EXCEPT ![op.table].constraints = RenamedConstraints(@, op.new, op.old)]
      [] OTHER -> s

\* MigrationManager._replay over a prefix of the files.
Replay(files) ==
    FoldLeft(LAMBDA s, file : FoldLeft(LAMBDA r, op : ApplyState(op, r), s, file.ops),
             <<>>, files)
=============================================================================
