---------------------------- MODULE QueryLookups ----------------------------
(***************************************************************************)
(* From a lookup such as author__name__not=0 to an SQL condition           *)
(* (_compile_lookup and below in queryset.py), and what a database answers *)
(* for it: true, false or UNKNOWN.                                         *)
(*                                                                         *)
(* A lookup is [path, op, value].  A condition is text: a sequence, joined *)
(* by OR, of sequences of clauses joined by AND, because that is how a     *)
(* database reads "a OR b AND c" whatever the writer of the text meant.    *)
(* Values are numbers or Null.  A subquery has no columns of its outer     *)
(* query in it, so its rows are read where it is rendered.                 *)
(***************************************************************************)
EXTENDS Integers, Sequences, FiniteSets, SequencesExt, FiniteSetsExt, Functions

CONSTANTS
  Null,
  Columns,      \* [model -> its columns besides id]
  Relations     \* [model -> [name -> [kind, model, near, far]]], see below

\* A forward relation reads the column "near" of its own row and a reverse one the column
\* "near" of the other's rows; a many-to-many one pairs "near" with "far" in the through rows.
RelationKinds == {"forward", "reverse", "m2m"}

VARIABLE db     \* [model -> its rows], and the rows of the through table under "through"

Models == DOMAIN Relations
Rel(m, seg) == Relations[m][seg]
IsRelation(m, seg, kind) == seg \in DOMAIN Relations[m] /\ Rel(m, seg).kind = kind

\* The column a name stands for: that of a forward relation is its foreign key.
ColumnOf(m, seg) == IF IsRelation(m, seg, "forward") THEN Rel(m, seg).near ELSE seg

Ids(rows) == {r.id : r \in rows}

-----------------------------------------------------------------------------
(* SQL's three truth values. *)

False == 0
Unknown == 1
True == 2

Truth(holds) == IF holds THEN True ELSE False
And3(ts) == Min(ts \cup {True})
Or3(ts) == Max(ts \cup {False})
Not3(t) == 2 - t

Compared(u, v, holds) == IF Null \in {u, v} THEN Unknown ELSE Truth(holds)
InList(v, list) ==
  Or3({Compared(v, x, v = x) : x \in list})

-----------------------------------------------------------------------------
(* Clauses and text. *)

IsNull(col, is) == [sql |-> "null", col |-> col, is |-> is]
Cmp(col, op, value) == [sql |-> "cmp", col |-> col, op |-> op, value |-> value]
CmpColumn(col, op, other) == [sql |-> "columns", col |-> col, op |-> op, other |-> other]
Member(col, list) == [sql |-> "in", col |-> col, list |-> list]
Constant(holds) == [sql |-> "constant", holds |-> holds]
Paren(text) == [sql |-> "paren", text |-> text]
Negated(text) == [sql |-> "not", text |-> text]

Atom(clause) == <<<<clause>>>>

\* Written one after the other with a connector between: AND reaches only the neighbours.
Written(connector, t, u) ==
  CASE t = <<>> -> u
    [] u = <<>> -> t
    [] connector = "OR" -> t \o u
    [] OTHER -> Front(t) \o <<Last(t) \o Head(u)>> \o Tail(u)
JoinedText(connector, parts) ==
  LET Add(t, u) == Written(connector, t, u) IN FoldLeft(Add, <<>>, parts)

Related(op, u, v) ==
  CASE op = "="  -> Compared(u, v, u = v)
    [] op = "!=" -> Compared(u, v, u # v)
    [] op = ">"  -> IF Null \in {u, v} THEN Unknown ELSE Truth(u > v)
    [] op = "<=" -> IF Null \in {u, v} THEN Unknown ELSE Truth(u <= v)

RECURSIVE TextTruth(_, _)
ClauseTruth(c, row) ==
  CASE c.sql = "null"     -> Truth((row[c.col] = Null) = c.is)
    [] c.sql = "cmp"      -> Related(c.op, row[c.col], c.value)
    [] c.sql = "columns"  -> Related(c.op, row[c.col], row[c.other])
    [] c.sql = "in"       -> InList(row[c.col], c.list)
    [] c.sql = "constant" -> Truth(c.holds)
    [] c.sql = "paren"    -> TextTruth(c.text, row)
    [] c.sql = "not"      -> Not3(TextTruth(c.text, row))
TextTruth(text, row) ==
  IF text = <<>> THEN True
  ELSE Or3({And3({ClauseTruth(c, row) : c \in Range(conj)}) : conj \in Range(text)})

\* WHERE and HAVING keep the rows the condition is true of, not those it is unknown of.
Where(text, rows) == {r \in rows : TextTruth(text, r) = True}

-----------------------------------------------------------------------------
(* Lookups. *)

\* The operators of the plain comparisons; "column" is exact with another column, F(name).
Operators == ("exact" :> "=") @@ ("not" :> "!=") @@ ("gt" :> ">") @@ ("lte" :> "<=")

\* =None and __not=None ask for NULL itself; a comparison with NULL would match no row.
AsksForNull(op, value) == op \in {"exact", "not"} /\ value = Null

KeepNull(col, clause) == Paren(<<<<clause>>, <<IsNull(col, TRUE)>>>>)

CompileFieldOp(col, op, value) ==
  CASE op = "isnull" -> IsNull(col, value)
    [] op = "not_isnull" -> IsNull(col, ~value)
    [] AsksForNull(op, value) -> IsNull(col, op = "exact")
    [] op = "in" -> IF value = {} THEN Constant(FALSE) ELSE Member(col, value)
    [] op = "not_in" -> IF value = {} THEN Constant(TRUE)
                        ELSE KeepNull(col, Negated(Atom(Member(col, value))))
    [] op = "column" -> CmpColumn(col, "=", value)
    [] op = "not" -> KeepNull(col, Cmp(col, "!=", value))
    [] OTHER -> Cmp(col, Operators[op], value)

\* Mutant: near and far keys are mistaken for each other.
LinkedBackwards(r, fars) == {t[r.far] : t \in {x \in db.through : x[r.near] \in fars}}

\* value IN (SELECT near FROM through WHERE far ...), negated for what has no such row.
Linked(r, fars) == {t[r.near] : t \in {x \in db.through : x[r.far] \in fars}}

CompileM2MLookup(r, op, value) ==
  LET all == {t[r.near] : t \in db.through}
      clause == CASE op \in {"isnull", "not_isnull"} -> Member("id", all)
                  [] op = "in" -> Member("id", Linked(r, value))
                  [] OTHER -> Member("id", Linked(r, {value}))
      absent == \/ op = "isnull" /\ value
                \/ op = "not_isnull" /\ ~value
                \/ op = "not"
  IN  CASE op = "in" /\ value = {} -> Constant(FALSE)
        [] absent -> Negated(Atom(clause))
        [] OTHER -> clause

\* [NOT] EXISTS (SELECT 1 FROM child WHERE child.fk = outer.pk): never unknown.
CompileReverseExists(r, op, value) ==
  LET owners == {c[r.near] : c \in db[r.model]} \ {Null}
      exists == Member("id", owners)
  IN  IF (op = "isnull") = value THEN Negated(Atom(exists)) ELSE exists

\* Membership in a subquery over the related rows.
MemberOf(r, rows) ==
  CASE r.kind = "forward" -> Member(r.near, Ids(rows))
    [] r.kind = "reverse" -> Member("id", {c[r.near] : c \in rows})
    [] r.kind = "m2m" -> Member("id", Linked(r, Ids(rows)))

RECURSIVE CompileLookup(_, _)
\* The first hop as a membership subquery over the rows the rest of the path selects.
CompileRelationLookup(r, lookup) ==
  MemberOf(r, Where(Atom(CompileLookup(r.model, [lookup EXCEPT !.path = Tail(@)])), db[r.model]))

CompileLookup(m, lookup) ==
  LET seg == Head(lookup.path) IN
  CASE Len(lookup.path) > 1 -> CompileRelationLookup(Rel(m, seg), lookup)
    [] IsRelation(m, seg, "m2m") -> CompileM2MLookup(Rel(m, seg), lookup.op, lookup.value)
    [] IsRelation(m, seg, "reverse") -> CompileReverseExists(Rel(m, seg), lookup.op, lookup.value)
    [] OTHER -> CompileFieldOp(ColumnOf(m, seg), lookup.op, lookup.value)

\* A tree of lookups: [filters, children, connector, negated].
Q(filters, children, connector) ==
  [filters |-> filters, children |-> children, connector |-> connector, negated |-> FALSE]
Invert(q) == [q EXCEPT !.negated = ~@]

Parenthesised(text) == IF text = <<>> THEN <<>> ELSE Atom(Paren(text))
NegatedIf(negated, text) == IF text # <<>> /\ negated THEN Atom(Negated(text)) ELSE text

RECURSIVE CompileQ(_, _)
CompileQ(m, q) ==
  NegatedIf(q.negated,
    JoinedText(q.connector,
      [i \in DOMAIN q.filters |-> Atom(CompileLookup(m, q.filters[i]))]
      \o [i \in DOMAIN q.children |-> Parenthesised(CompileQ(m, q.children[i]))]))

\* Mutant: the conditions joined as they are, without parentheses.
BareConditions(m, conditions) ==
  JoinedText("AND", [i \in DOMAIN conditions |-> CompileQ(m, conditions[i])])

\* Each condition in parentheses of its own: an OR inside must not reach its neighbours.
CompileConditions(m, conditions) ==
  JoinedText("AND", [i \in DOMAIN conditions |-> Parenthesised(CompileQ(m, conditions[i]))])

=============================================================================
