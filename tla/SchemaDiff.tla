----------------------------- MODULE SchemaDiff -----------------------------
(***************************************************************************)
(* The autodetector: the operations that turn one schema state into        *)
(* another (migrations/diff.py).  Names are visited in some fixed order,   *)
(* the code's sorted() or the order of a dict.                             *)
(***************************************************************************)
EXTENDS SchemaOps, Relation

\* Model declarations as a state; join tables are declared like any other.
ModelState(decls) ==
    [t \in DOMAIN decls |->
        [NewTState(decls[t].fields, decls[t].cpk) EXCEPT
            !.composite = decls[t].composite, !.constraints = decls[t].constraints]]

TableDeps(ts) == {ts.fields[c].fk : c \in DOMAIN ts.fields} \ {NoTable}

\* Mutant: tables are created in the order they are found in.
AnyOrder(names, s) == SetToSeqs(names)

(***************************************************************************)
(* What a depth-first visit of the tables can return: a table comes after  *)
(* the tables it references, except when such a table leads back to it.    *)
(* The visit walks Python sets, so which of these orders it is, is open.   *)
(***************************************************************************)
TopoOrders(names, s) ==
    LET edge == [x, y \in names |-> x # y /\ y \in TableDeps(s[x])]
        leads == TransitiveClosure(edge, names)
    IN {p \in SetToSeqs(names) :
          \A i, j \in DOMAIN p : i < j /\ edge[p[i], p[j]] => leads[p[j], p[i]]}

\* Mutant: a changed reference is not a change of the column.
AlterableColumn(old, new) == [ColumnSpec(old) EXCEPT !.fk = new.fk] # ColumnSpec(new)

Alterable(old, new) == ColumnSpec(old) # ColumnSpec(new)

\* Mutant: any pair of one definition is taken for a rename.
GuessRenames(of, nf) ==
    LET Like(a) == {r \in DOMAIN of \ DOMAIN nf : ColumnSpec(of[r]) = ColumnSpec(nf[a])}
        added == {a \in DOMAIN nf \ DOMAIN of : Like(a) # {}}
    IN IF added = {} THEN {} ELSE LET a == CHOOSE x \in added : TRUE
                                  IN {<<CHOOSE r \in Like(a) : TRUE, a>>}

(***************************************************************************)
(* A dropped and an added column of one definition are a rename when       *)
(* neither has another candidate.                                          *)
(***************************************************************************)
DetectRenames(of, nf) ==
    LET removed == DOMAIN of \ DOMAIN nf
        added == DOMAIN nf \ DOMAIN of
        Same(r, a) == ColumnSpec(of[r]) = ColumnSpec(nf[a])
    IN {p \in removed \X added :
          /\ {a \in added : Same(p[1], a)} = {p[2]}
          /\ \A r \in removed : Same(r, p[2]) => r = p[1]}

DiffComposites(t, old, new) ==
    LET changed(f, g) == {n \in DOMAIN f : n \notin DOMAIN g \/ f[n] # g[n]}
        Gone(n) == Composite(TRUE, t, n, old[n])
        Came(n) == Composite(FALSE, t, n, new[n])
    IN Each(changed(old, new), Gone) \o Each(changed(new, old), Came)

DiffConstraints(t, old, new) ==
    LET Gone(k) == ConstraintOp(TRUE, t, k)
        Came(k) == ConstraintOp(FALSE, t, k)
    IN Each(old \ new, Gone) \o Each(new \ old, Came)

DiffTable(t, old, new) ==
    LET of == old.fields
        nf == new.fields
        renames == DetectRenames(of, nf)
        kept == {c \in DOMAIN nf \cap DOMAIN of : Alterable(of[c], nf[c])}
        demoted == {c \in kept : of[c].pk /\ ~nf[c].pk}
        appeared == (DOMAIN nf \ DOMAIN of) \ {p[2] : p \in renames}
        vanished == (DOMAIN of \ DOMAIN nf) \ {p[1] : p \in renames}
        DropIndex(c) == Index(TRUE, t, c)
        Rename(p) == RenameField(t, p[1], p[2])
        Drop(c) == Column(TRUE, t, c, of[c])
        Change(c) == IF c \in kept THEN AlterField(t, c, nf[c], of[c])
                                   ELSE Column(FALSE, t, c, nf[c])
        MakeIndex(c) == Index(FALSE, t, c)
    IN Each(old.indexes \ new.indexes, DropIndex) \o Each(renames, Rename)
       \o Each(vanished, Drop) \o Each(demoted, Change)
       \o Each((kept \ demoted) \cup appeared, Change)
       \o Each(new.indexes \ old.indexes, MakeIndex)
       \o DiffComposites(t, old.composite, new.composite)
       \o DiffConstraints(t, old.constraints, new.constraints)

\* create and drop: the topological orders chosen for the new and lost tables.
DiffStates(old, new, create, drop) ==
    LET Create(t) == Table(FALSE, t, new[t])
        Delete(t) == Table(TRUE, t, old[t])
        Keep(t) == DiffTable(t, old[t], new[t])
    IN [i \in DOMAIN create |-> Create(create[i])]
       \o FlattenSeq(Each(DOMAIN old \cap DOMAIN new, Keep))
       \o [i \in DOMAIN drop |-> Delete(Reverse(drop)[i])]

\* Pairs that look like a renamed table: the file is written with a warning.
TableRecreateWarnings(old, new) ==
    LET Shape(ts) == [TSpec(ts) EXCEPT !.indexes = {}, !.composite = <<>>,
                                       !.constraints = {}]
    IN {p \in (DOMAIN old \ DOMAIN new) \X (DOMAIN new \ DOMAIN old) :
          Shape(old[p[1]]) = Shape(new[p[2]])}
=============================================================================
