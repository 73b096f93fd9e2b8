----------------------------- MODULE SchemaSql -----------------------------
(***************************************************************************)
(* The statements each operation renders for a dialect, forwards and       *)
(* backwards (the migration rendering of dialects.py), and what a database *)
(* does with such a statement.                                             *)
(*                                                                         *)
(* A catalog maps its tables to their columns, [type, null, default,       *)
(* data], and to their objects: indexes, keys and constraints, [type,      *)
(* name, cols, ref].  Names                                                *)
(* the code derives from a table and a column end in "code"; the names the *)
(* database invents for what has none end in "db".  "data" names the       *)
(* column the values came from, <<>> for a column without values.          *)
(***************************************************************************)
EXTENDS SchemaOps

Dialects == {"postgres", "sqlite", "mysql", "oracle", "mssql"}

Derived(kind, t, c) == <<kind, t, c, "code">>
\* PostgreSQL invents <table>_<column>_key and its like, the names the code derives.
Invented(d, kind, t, c) == <<kind, t, c, IF d = "postgres" THEN "code" ELSE "db">>
Named(n) == <<"named", n, "", "code">>

Obj(type, name, cols) == [type |-> type, name |-> name, cols |-> cols, ref |-> NoTable]
UniqueObj(name, c)  == Obj("unique", name, <<c>>)
FkObj(name, c, ref) == [Obj("fk", name, <<c>>) EXCEPT !.ref = ref]
IndexObj(t, c)      == Obj("index", Derived("idx", t, c), <<c>>)
ConstraintObj(k)    == Obj(k.kind, Named(k.name), k.cols)

\* What render_column_def puts into the column: UNIQUE, but neither key nor reference.
InlineObjs(d, t, c, col) ==
    IF col.unique /\ ~col.pk THEN {UniqueObj(Invented(d, "key", t, c), c)} ELSE {}

\* The lines of a CREATE TABLE.
TableObjs(d, t, ts) ==
    UNION {InlineObjs(d, t, c, ts.columns[c]) : c \in DOMAIN ts.columns}
    \cup {Obj("pk", Invented(d, "pkey", t, ""), ts.key) : k \in {1} \cap DOMAIN ts.key}
    \cup {FkObj(Invented(d, "fkey", t, c), c, ts.columns[c].fk) :
            c \in {x \in DOMAIN ts.columns : ts.columns[x].fk # NoTable}}
    \cup {ConstraintObj(k) : k \in ts.constraints}

\* A key column is never NULL.
ColumnDef(col) == [type |-> col.type, null |-> col.null /\ ~col.pk, default |-> col.default]
Columns(ts) == [c \in DOMAIN ts.columns |-> ColumnDef(ts.columns[c])]

-----------------------------------------------------------------------------
(* Statements. *)

Unsupported == <<[st |-> "raise"]>>
AddObj(t, obj, safe) == [st |-> "add", table |-> t, obj |-> obj, safe |-> safe]
DropObj(t, name, safe) == [st |-> "drop", table |-> t, name |-> name, safe |-> safe]
CreateStmt(t, cols, objs, safe) == [st |-> "create table", table |-> t, cols |-> cols,
    objs |-> objs, safe |-> safe]
\* ALTER COLUMN: the parts of the definition it restates, from a column spec.
SetParts(t, c, parts, col) ==
    IF parts = {} THEN <<>>
    ELSE <<[st |-> "set", table |-> t, name |-> c, parts |-> parts, def |-> ColumnDef(col)]>>

IndexStmts(t, ts, safe) ==
    LET Single(c) == AddObj(t, IndexObj(t, c), safe)
        Many(n) == AddObj(t, Obj("index", Named(n), ts.composite[n]), safe)
    IN Each(ts.indexes, Single) \o Each(DOMAIN ts.composite, Many)

\* MySQL writes the indexes into the CREATE TABLE.
MySQLCreateTable(t, ts, safe) ==
    LET indexes == IndexStmts(t, ts, safe)
    IN <<CreateStmt(t, Columns(ts),
             TableObjs("mysql", t, ts) \cup {indexes[i].obj : i \in DOMAIN indexes}, safe)>>

RenderCreateTable(d, t, ts, safe) ==
    IF d = "mysql" THEN MySQLCreateTable(t, ts, safe)
    ELSE <<CreateStmt(t, Columns(ts), TableObjs(d, t, ts), safe)>> \o IndexStmts(t, ts, safe)

RenderDropTable(d, t) ==
    <<[st |-> "drop table", table |-> t, cascade |-> d \in {"postgres", "oracle"}]>>

ColumnGuard(d, safe) == safe /\ d \in {"postgres", "oracle"}

\* Oracle's ADD takes no guard.
RenderAddColumn(d, t, c, col, safe) ==
    <<[st |-> "add column", table |-> t, name |-> c, def |-> ColumnDef(col),
       objs |-> InlineObjs(d, t, c, col), safe |-> ColumnGuard(d, safe) /\ d # "oracle"]>>

RenderDropColumn(d, t, c, safe) ==
    <<[st |-> "drop column", table |-> t, name |-> c, safe |-> ColumnGuard(d, safe)]>>

\* DROP CONSTRAINT IF EXISTS, of PostgreSQL only.
DropGuarded(d) == d = "postgres"

ToggleUnique(d, t, c, old, new) ==
    LET name == Derived("key", t, c)
    IN IF old.unique = new.unique \/ new.pk THEN <<>>
       ELSE IF new.unique THEN <<AddObj(t, UniqueObj(name, c), FALSE)>>
       ELSE <<DropObj(t, name, DropGuarded(d))>>

\* <table>_pkey on PostgreSQL, DROP PRIMARY KEY on MySQL and Oracle.
TogglePk(d, t, c, old, new) ==
    LET name == IF d = "postgres" THEN Derived("pkey", t, "") ELSE Invented(d, "pkey", t, "")
    IN IF old.pk = new.pk THEN <<>>
       ELSE IF new.pk THEN <<AddObj(t, Obj("pk", Invented(d, "pkey", t, ""), <<c>>), FALSE)>>
       ELSE IF d = "mssql" THEN Unsupported
       ELSE <<DropObj(t, name, FALSE)>>

ToggleFk(d, t, c, old, new) ==
    LET name == Derived("fkey", t, c)
        gone == old.fk # NoTable \/ DropGuarded(d)
    IN IF old.fk = new.fk THEN <<>>
       ELSE (IF gone THEN <<DropObj(t, name, DropGuarded(d))>> ELSE <<>>)
            \o (IF new.fk = NoTable THEN <<>> ELSE <<AddObj(t, FkObj(name, c, new.fk), FALSE)>>)

\* Mutant: the rebuilt table gets no indexes.
RebuildWithoutIndexes(d, t, ts) ==
    LET temp == "_new_" \o t
    IN RenderCreateTable(d, temp, [ts EXCEPT !.indexes = {}, !.composite = <<>>], FALSE)
       \o <<[st |-> "copy", to |-> temp, from |-> t, cols |-> DOMAIN ts.columns],
            [st |-> "drop table", table |-> t, cascade |-> FALSE],
            [st |-> "rename table", old |-> temp, new |-> t]>>

\* SQLite: create under a new name, copy, drop, rename, then the indexes again.
RenderRebuildTable(d, t, ts) ==
    LET temp == "_new_" \o t
        bare == [ts EXCEPT !.indexes = {}, !.composite = <<>>]
    IN RenderCreateTable(d, temp, bare, FALSE)
       \o <<[st |-> "copy", to |-> temp, from |-> t, cols |-> DOMAIN ts.columns],
            [st |-> "drop table", table |-> t, cascade |-> FALSE],
            [st |-> "rename table", old |-> temp, new |-> t]>>
       \o IndexStmts(t, ts, FALSE)

Changed(old, new) == {p \in {"type", "null", "default"} : old[p] # new[p]}
Toggles(d, t, c, old, new) ==
    TogglePk(d, t, c, old, new) \o ToggleUnique(d, t, c, old, new) \o ToggleFk(d, t, c, old, new)

AlterInPlace(d, t, c, old, new) ==
    LET Part(p) == SetParts(t, c, Changed(old, new) \cap {p}, new)
    IN Part("type") \o Part("null") \o Part("default") \o Toggles(d, t, c, old, new)

\* MODIFY COLUMN restates the whole definition, its default included.
MySQLAlterColumn(t, c, old, new) ==
    LET changed == Changed(old, new)
        parts == IF changed \in {{}, {"default"}} THEN changed ELSE {"type", "null", "default"}
    IN SetParts(t, c, parts, new) \o Toggles("mysql", t, c, old, new)

OracleAlterColumn(t, c, old, new) ==
    LET changed == Changed(old, new)
    IN SetParts(t, c, changed \ {"default"}, new) \o SetParts(t, c, changed \cap {"default"}, new)
       \o Toggles("oracle", t, c, old, new)

\* A default is a constraint that SQL Server named itself: it cannot be altered.
MsSqlAlterColumn(t, c, old, new) ==
    LET parts == IF Changed(old, new) = {} THEN {} ELSE {"type", "null"}
    IN IF "default" \in Changed(old, new) THEN Unsupported
       ELSE SetParts(t, c, parts, new) \o Toggles("mssql", t, c, old, new)

RenderAlterColumn(d, t, c, old, new, ts) ==
    CASE d = "sqlite"   -> RenderRebuildTable(d, t, ts)
      [] d = "postgres" -> AlterInPlace(d, t, c, old, new)
      [] d = "mysql"    -> MySQLAlterColumn(t, c, old, new)
      [] d = "oracle"   -> OracleAlterColumn(t, c, old, new)
      [] d = "mssql"    -> MsSqlAlterColumn(t, c, old, new)

\* No IF [NOT] EXISTS for indexes on MySQL; a query guards them on SQL Server.
IndexGuard(d, safe) == safe /\ d # "mysql"
MySQLDropIndex(t, name) == <<DropObj(t, name, FALSE)>>
RenderDropIndex(d, t, name) ==
    IF d = "mysql" THEN MySQLDropIndex(t, name) ELSE <<DropObj(t, name, TRUE)>>

\* DROP CONSTRAINT IF EXISTS on PostgreSQL and SQL Server.
RenderDropConstraint(d, t, n) == <<DropObj(t, Named(n), d \in {"postgres", "mssql"})>>

Rename(t, old, new, safe) ==
    <<[st |-> "rename", table |-> t, old |-> Named(old), new |-> Named(new), safe |-> safe]>>
MySQLRenameIndex(t, old, new) == Rename(t, old, new, FALSE)
OracleRenameIndex(t, old, new) == Rename(t, old, new, FALSE)
MsSqlRenameIndex(t, old, new) == Rename(t, old, new, FALSE)

RenderRenameIndex(d, t, c, old, new) ==
    CASE d = "postgres" -> Rename(t, old, new, TRUE)
      [] d = "sqlite" -> <<DropObj(t, Named(old), TRUE),
                           AddObj(t, Obj("index", Named(new), <<c>>), TRUE)>>
      [] d = "mysql"  -> MySQLRenameIndex(t, old, new)
      [] d = "oracle" -> OracleRenameIndex(t, old, new)
      [] d = "mssql"  -> MsSqlRenameIndex(t, old, new)

RenderRenameConstraint(d, t, old, new) ==
    IF d \in {"sqlite", "mysql"} THEN Unsupported ELSE Rename(t, old, new, FALSE)

-----------------------------------------------------------------------------
(* What an operation sends: the "do" of its pair or, undone, the "undo". *)

TableSql(d, op, safe, undo) ==
    LET ts == [NewTState(op.fields, op.cpk) EXCEPT
                  !.composite = op.composite, !.constraints = op.constraints]
    IN IF undo THEN RenderDropTable(d, op.table)
               ELSE RenderCreateTable(d, op.table, TSpec(ts), safe)

ColumnSql(d, op, safe, undo) ==
    IF undo THEN RenderDropColumn(d, op.table, op.name, safe)
            ELSE RenderAddColumn(d, op.table, op.name, ColumnSpec(op.field), safe)

IndexSql(d, op, safe, undo) ==
    IF undo THEN RenderDropIndex(d, op.table, Derived("idx", op.table, op.name))
            ELSE <<AddObj(op.table, IndexObj(op.table, op.name), IndexGuard(d, safe))>>

CompositeSql(d, op, safe, undo) ==
    IF undo THEN RenderDropIndex(d, op.table, Named(op.name))
    ELSE <<AddObj(op.table, Obj("index", Named(op.name), op.cols), IndexGuard(d, safe))>>

\* SQLite rebuilds the recorded table, with the constraint or without it.
RebuildConstraint(d, op, s, adding) ==
    IF op.table \notin DOMAIN s THEN Unsupported
    ELSE LET others == {k \in s[op.table].constraints : k.name # op.constraint.name}
             now == IF adding THEN others \cup {op.constraint} ELSE others
         IN RenderRebuildTable(d, op.table, TSpec([s[op.table] EXCEPT !.constraints = now]))

ConstraintSql(d, op, s, undo) ==
    IF d = "sqlite" THEN RebuildConstraint(d, op, s, ~undo)
    ELSE IF undo THEN RenderDropConstraint(d, op.table, op.constraint.name)
    ELSE <<AddObj(op.table, ConstraintObj(op.constraint), FALSE)>>

PairSql(d, op, s, safe, undo) ==
    CASE op.op = "Table"      -> TableSql(d, op, safe, undo)
      [] op.op = "Column"     -> ColumnSql(d, op, safe, undo)
      [] op.op = "Index"      -> IndexSql(d, op, safe, undo)
      [] op.op = "Composite"  -> CompositeSql(d, op, safe, undo)
      [] op.op = "Constraint" -> ConstraintSql(d, op, s, undo)

\* The rebuild of SQLite is made of the state's columns, with the new definition.
Alter(d, op, s, new, old) ==
    RenderAlterColumn(d, op.table, op.name, ColumnSpec(old), ColumnSpec(new),
        TSpec([s[op.table] EXCEPT !.fields = (op.name :> new) @@ @]))

RenameTable(old, new) == <<[st |-> "rename table", old |-> old, new |-> new]>>
RenameColumn(t, old, new) ==
    <<[st |-> "rename column", table |-> t, old |-> old, new |-> new]>>

ForwardSql(d, op, s) ==
    CASE Reversible(op) -> PairSql(d, op, s, op.safe, op.reverse)
      [] op.op = "AlterField" -> Alter(d, op, s, op.field, op.old)
      [] op.op = "RenameModel" -> RenameTable(op.old, op.new)
      [] op.op = "RenameField" -> RenameColumn(op.table, op.old, op.new)
      [] op.op = "RenameIndex" -> RenderRenameIndex(d, op.table, op.name, op.old, op.new)
      [] op.op = "RenameConstraint" -> RenderRenameConstraint(d, op.table, op.old, op.new)
      [] op.op = "RunSQL" -> <<>>

\* Guards are off in the reverse direction, but for composite indexes.
BackwardSql(d, op, s) ==
    CASE Reversible(op) -> PairSql(d, op, s, op.op = "Composite", ~op.reverse)
      [] op.op = "AlterField" -> Alter(d, op, s, op.old, op.field)
      [] op.op = "RenameModel" -> RenameTable(op.new, op.old)
      [] op.op = "RenameField" -> RenameColumn(op.table, op.new, op.old)
      [] op.op = "RenameIndex" -> RenderRenameIndex(d, op.table, op.name, op.new, op.old)
      [] op.op = "RenameConstraint" -> RenderRenameConstraint(d, op.table, op.new, op.old)
      [] op.op = "RunSQL" -> <<>>
=============================================================================
