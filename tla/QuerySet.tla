------------------------------ MODULE QuerySet ------------------------------
(***************************************************************************)
(* A query set, the calls that build one, the SELECT it stands for and the *)
(* terminal calls that run it (queryset.py), with the rows prefetch.py     *)
(* loads beside it.                                                        *)
(*                                                                         *)
(* Rows that no ordering tells apart come in the order of their ids, in    *)
(* every statement alike.                                                  *)
(***************************************************************************)
EXTENDS QueryLookups

CONSTANTS
  Raised,       \* the answer of a call that raises
  Ordering,     \* [model -> its Meta.ordering, a sequence of keys]
  NullsFirst    \* whether the database sorts NULL before every value

\* annotations: [name -> the Count of a relation, or of the row itself under "id"].
Query(m) ==
  [model |-> m, conditions |-> <<>>, having |-> <<>>, order |-> <<>>, limit |-> Null,
   offset |-> Null, annotations |-> <<>>, groupBy |-> <<>>, related |-> <<>>]

Key(path, desc) == [path |-> path, desc |-> desc]
Count(rel, distinct) == [rel |-> rel, distinct |-> distinct]
Exactly(col, value) == [path |-> <<col>>, op |-> "exact", value |-> value]
Among(col, values) == [path |-> <<col>>, op |-> "in", value |-> values]

-----------------------------------------------------------------------------
(* The calls that build it: each returns another query set. *)

OnAnnotation(q, lookup) == Head(lookup.path) \in DOMAIN q.annotations
HavingOf(q, lookups) == LET Is(l) == OnAnnotation(q, l) IN SelectSeq(lookups, Is)
WhereOf(q, lookups) == LET Not(l) == ~OnAnnotation(q, l) IN SelectSeq(lookups, Not)

Filter(q, args, lookups) ==
  LET having == HavingOf(q, lookups)
      where == WhereOf(q, lookups)
  IN  [q EXCEPT !.conditions = @ \o args \o
                  IF where = <<>> THEN <<>> ELSE <<Q(where, <<>>, "AND")>>,
                !.having = @ \o [i \in DOMAIN having |->
                                   [group |-> <<having[i]>>, negated |-> FALSE]]]

\* NOT (column AND annotation) has no WHERE and HAVING of its own: refused.
Excludable(q, args, lookups) ==
  HavingOf(q, lookups) = <<>> \/ (args = <<>> /\ WhereOf(q, lookups) = <<>>)
Exclude(q, args, lookups) ==
  IF HavingOf(q, lookups) # <<>>
  THEN [q EXCEPT !.having = Append(@, [group |-> lookups, negated |-> TRUE])]
  ELSE [q EXCEPT !.conditions = Append(@, Invert(Q(lookups, args, "AND")))]

Annotate(q, name, agg) == [q EXCEPT !.annotations = (name :> agg) @@ @]
OrderBy(q, keys) == [q EXCEPT !.order = @ \o keys]
Limit(q, n) == [q EXCEPT !.limit = n]
Offset(q, n) == [q EXCEPT !.offset = n]

\* Mutant: a slice forgets the window that is there already.
SliceRestarted(q, start, stop) ==
  [q EXCEPT !.offset = IF start = 0 THEN Null ELSE start,
            !.limit = IF stop = Null THEN q.limit ELSE Max({0, stop - start})]
\* q[start:stop], relative to the window q has: an offset of 0 is none, a limit never negative.
Slice(q, start, stop) ==
  LET AtLeast0(n) == Max({n, 0})
      offset == (IF q.offset = Null THEN 0 ELSE q.offset) + start
      asked == IF stop = Null THEN {} ELSE {AtLeast0(stop - start)}
      left == IF q.limit = Null THEN {} ELSE {AtLeast0(q.limit - start)}
  IN  [q EXCEPT !.offset = IF offset = 0 THEN Null ELSE offset,
                !.limit = IF asked \cup left = {} THEN Null ELSE Min(asked \cup left)]

IsSliced(q) == q.limit # Null \/ q.offset # Null
Unsliced(q) == [q EXCEPT !.limit = Null, !.offset = Null]

-----------------------------------------------------------------------------
(* The joins, and what is counted over them. *)

Partners(m, row, seg) ==
  LET r == Rel(m, seg) IN
  CASE r.kind = "forward" -> {x \in db[r.model] : x.id = row[r.near]}
    [] r.kind = "reverse" -> {x \in db[r.model] : x[r.near] = row.id}
    [] r.kind = "m2m" -> {x \in db[r.model] : \E t \in db.through : t[r.near] = row.id /\ t[r.far] = x.id}

\* LEFT JOIN: a row without partners is joined with none.
OrNull(partners) == IF partners = {} THEN {Null} ELSE partners
JoinedTo(m, row, seg) == OrNull(Partners(m, row, seg))

\* Mutant: rows without partners drop out.
InnerJoined(m, row, segs) ==
  {[row |-> row, to |-> to] : to \in {f \in [segs -> UNION {Partners(m, row, s) : s \in segs}] :
                                        \A s \in segs : f[s] \in Partners(m, row, s)}}
\* The joined rows of a base row, one for each choice of a partner in every relation joined.
Joined(m, row, segs) ==
  {[row |-> row, to |-> to] :
     to \in {f \in [segs -> UNION {JoinedTo(m, row, s) : s \in segs}] :
               \A s \in segs : f[s] \in JoinedTo(m, row, s)}}

Aggregate(agg, joined) ==
  IF agg.rel = "id"
  THEN IF agg.distinct THEN Cardinality({x.row.id : x \in joined}) ELSE Cardinality(joined)
  ELSE LET hits == {x \in joined : x.to[agg.rel] # Null}
       IN  IF agg.distinct THEN Cardinality({x.to[agg.rel].id : x \in hits}) ELSE Cardinality(hits)

Aggregated(q, names) == {q.annotations[n].rel : n \in names} \ {"id"}
AnnotationValues(q, joined) == [n \in DOMAIN q.annotations |-> Aggregate(q.annotations[n], joined)]

CompileHaving(q) ==
  LET Part(l) == Atom(CompileFieldOp(Head(l.path), l.op, l.value))
      Clause(h, text) == CASE h.negated -> Atom(Negated(text))
                           [] Len(h.group) > 1 -> Atom(Paren(text))
                           [] OTHER -> text
      Group(h) == Clause(h, JoinedText("AND", [i \in DOMAIN h.group |-> Part(h.group[i])]))
  IN  JoinedText("AND", [i \in DOMAIN q.having |-> Group(q.having[i])])

KeptBy(having, row) == TextTruth(having, row) = True

-----------------------------------------------------------------------------
(* SELECT. *)

Matching(q) == Where(CompileConditions(q.model, q.conditions), db[q.model])

RECURSIVE PathValue(_, _, _)
\* A column along forward relations, NULL where one of them leads nowhere.
PathValue(m, row, path) ==
  LET Along(x) == IF x = Null THEN Null ELSE PathValue(Rel(m, Head(path)).model, x, Tail(path))
  IN  IF Len(path) = 1 THEN row[ColumnOf(m, Head(path))]
      ELSE Along(CHOOSE x \in JoinedTo(m, row, Head(path)) : TRUE)

\* The row select_related() joins for each relation, NULL where it leads nowhere.
RelatedOf(q, row) ==
  [s \in Range(q.related) |-> CHOOSE x \in JoinedTo(q.model, row, s) : TRUE]

\* Instances: one group for each base row, with its annotations and its joined relations.
InstanceRows(q) ==
  LET segs == Aggregated(q, DOMAIN q.annotations)
      having == CompileHaving(q)
      Instances(row, joined) ==
        IF joined = {} THEN {}
        ELSE {[row |-> row, ann |-> AnnotationValues(q, joined), to |-> RelatedOf(q, row)]}
  IN  {x \in UNION {Instances(row, Joined(q.model, row, segs)) : row \in Matching(q)} :
         KeptBy(having, x.ann)}

\* values() after group_by(): one row for each value of the grouped columns.
GroupRows(q) ==
  LET segs == Aggregated(q, DOMAIN q.annotations)
      having == CompileHaving(q)
      Keyed(row) == <<[i \in DOMAIN q.groupBy |-> PathValue(q.model, row, q.groupBy[i])], row>>
      Group(key, rows) ==
        [key |-> key, row |-> [id |-> Min(Ids(rows))],
         ann |-> AnnotationValues(q, UNION {Joined(q.model, row, segs) : row \in rows})]
      Groups(keyed) ==
        {Group(k[1], {l[2] : l \in {x \in keyed : x[1] = k[1]}}) : k \in keyed}
  IN  {x \in Groups({Keyed(row) : row \in Matching(q)}) : KeptBy(having, x.ann)}

SelectRows(q) == IF q.groupBy = <<>> THEN InstanceRows(q) ELSE GroupRows(q)

\* order_by() over Meta.ordering.
EffectiveOrder(q) == IF q.order # <<>> THEN q.order ELSE Ordering[q.model]

SortValue(q, x, path) ==
  CASE Head(path) \in DOMAIN q.annotations -> x.ann[Head(path)]
    [] q.groupBy # <<>> -> x.key[CHOOSE i \in DOMAIN q.groupBy : q.groupBy[i] = path]
    [] OTHER -> PathValue(q.model, x.row, path)
\* A grouped query can be ordered by what it selects only.
Orderable(q) ==
  q.groupBy # <<>> =>
    \A i \in DOMAIN EffectiveOrder(q) :
      LET path == EffectiveOrder(q)[i].path
      IN  Head(path) \in DOMAIN q.annotations \/ path \in Range(q.groupBy)

RankOf(value) == IF value # Null THEN value ELSE IF NullsFirst THEN -1 ELSE 1000
SortKey(q, x) ==
  LET order == EffectiveOrder(q)
  IN  [i \in DOMAIN order |-> RankOf(SortValue(q, x, order[i].path)) * (IF order[i].desc THEN -1 ELSE 1)]
\* The first key that differs decides.
KeyBefore(k, l) ==
  LET differ == {i \in DOMAIN k : k[i] # l[i]} IN differ # {} /\ k[Min(differ)] < l[Min(differ)]
SortsBefore(q, x, y) == KeyBefore(SortKey(q, x), SortKey(q, y))

InKeyOrder(keyed) ==
  LET Place(k) == Cardinality({l \in keyed : KeyBefore(l.key, k.key)})
  IN  [i \in 1..Cardinality(keyed) |-> (CHOOSE k \in keyed : Place(k) = i - 1).x]
Sorted(q, rows) == InKeyOrder({[x |-> x, key |-> Append(SortKey(q, x), x.row.id)] : x \in rows})

Window(rows, limit, offset) ==
  LET from == IF offset = Null THEN 0 ELSE offset
      upto == IF limit = Null THEN Len(rows) ELSE Min({Len(rows), from + limit})
  IN  SubSeq(rows, from + 1, upto)

Fetch(q) == Window(Sorted(q, SelectRows(q)), q.limit, q.offset)

\* Instances: the terminal calls that return them know nothing of group_by().
FetchInstances(q) == Fetch([q EXCEPT !.groupBy = <<>>])
FetchedIds(q) == {x.row.id : x \in Range(FetchInstances(q))}

\* Mutant: NULLs stay in the list.
BareProjection(q, col) == {x.row[col] : x \in Range(Fetch(q))}
\* The values of one column, for use inside another statement: never a NULL among them.
ProjectionValues(q, col) ==
  LET guarded == [q EXCEPT !.conditions =
        Append(@, Q(<<[path |-> <<col>>, op |-> "not_isnull", value |-> TRUE]>>, <<>>, "AND"))]
  IN  {x.row[col] : x \in Range(Fetch(guarded))}

-----------------------------------------------------------------------------
(* Terminal calls that read. *)

NeedsWrappedTerminal(q) == q.having # <<>> \/ q.groupBy # <<>> \/ IsSliced(q)
CountOf(q) == IF NeedsWrappedTerminal(q) THEN Len(Fetch([q EXCEPT !.related = <<>>]))
              ELSE Cardinality(Matching(q))
Exists(q) == IF NeedsWrappedTerminal(q) THEN Fetch([q EXCEPT !.related = <<>>]) # <<>>
             ELSE Matching(q) # {}

HeadOf(rows) == IF rows = <<>> THEN Null ELSE Head(rows)
HeadOrError(rows) == IF rows = <<>> THEN Raised ELSE Head(rows)
SoleOf(rows) == IF Len(rows) > 1 THEN Raised ELSE HeadOf(rows)
Index(q, i) == HeadOrError(FetchInstances(Slice(q, i, i + 1)))
FirstOf(q) == HeadOf(FetchInstances(Limit(q, 1)))
GetOrNone(q, lookups) == SoleOf(FetchInstances(Limit(Filter(q, <<>>, lookups), 2)))
Reversed(keys) == [i \in DOMAIN keys |-> Key(keys[i].path, ~keys[i].desc)]
ReversibleOrder(q) ==
  IF EffectiveOrder(q) # <<>> THEN EffectiveOrder(q) ELSE <<Key(<<"id">>, FALSE)>>
LastOf(q) == IF IsSliced(q) THEN Raised
           ELSE HeadOf(FetchInstances(Limit([q EXCEPT !.order = Reversed(ReversibleOrder(q))], 1)))
Earliest(q, keys) == FirstOf(OrderBy(q, keys))
Latest(q, keys) == FirstOf(OrderBy(q, Reversed(keys)))

-----------------------------------------------------------------------------
(* Related rows: Prefetch(relation, queryset) over a set of owners, and the managers. *)

OnlyFor(rows, ids, col) == LET Its(x) == x.row[col] \in ids IN SelectSeq(rows, Its)

PrefetchForward(r, owners, q) ==
  LET base == Unsliced(q)
      fks == {o[r.near] : o \in owners} \ {Null}
      none == IsSliced(q) /\ (q.limit = 0 \/ (q.offset # Null /\ q.offset > 0))
      rows == IF fks = {} \/ none THEN <<>> ELSE FetchInstances(Filter(base, <<>>, <<Among("id", fks)>>))
  IN  [o \in owners |-> OnlyFor(rows, {o[r.near]}, "id")]

\* Mutant: a window over the rows of all owners at once.
PrefetchAllAtOnce(r, owners, q) ==
  LET all == FetchInstances(Filter(q, <<>>, <<Among(r.near, Ids(owners))>>))
  IN  [o \in owners |-> OnlyFor(all, {o.id}, r.near)]

\* A sliced query set runs once for each owner, any other once for all of them.
PrefetchReverse(r, owners, q) ==
  LET Own(o) == FetchInstances(Filter(q, <<>>, <<Exactly(r.near, o.id)>>))
      all == FetchInstances(Filter(q, <<>>, <<Among(r.near, Ids(owners))>>))
  IN  [o \in owners |-> IF IsSliced(q) THEN Own(o) ELSE OnlyFor(all, {o.id}, r.near)]

\* The rows linked to some owners, read in one join with the through rows and in no order:
\* what awaiting a many-to-many manager sends for its one owner, and a prefetch without a
\* query set of its own for all of them, which then deals the rows out.
ThroughJoin(r, owners) ==
  {[owner |-> link[r.near], row |-> x] :
     <<link, x>> \in {p \in db.through \X db[r.model] : p[1][r.far] = p[2].id /\ p[1][r.near] \in Ids(owners)}}

\* With a query set: the links first, and then the rows through the query set.
PrefetchM2M(r, owners, q) ==
  LET FarOf(o) == {t[r.far] : t \in {x \in db.through : x[r.near] = o.id}}
      Own(o) == IF FarOf(o) = {} THEN <<>> ELSE FetchInstances(Filter(q, <<>>, <<Among("id", FarOf(o))>>))
      all == FetchInstances(Filter(q, <<>>, <<Among("id", UNION {FarOf(o) : o \in owners})>>))
  IN  [o \in owners |-> IF IsSliced(q) THEN Own(o) ELSE OnlyFor(all, FarOf(o), "id")]

Prefetched(m, seg, owners, q) ==
  LET r == Rel(m, seg) IN
  CASE r.kind = "forward" -> PrefetchForward(r, owners, q)
    [] r.kind = "reverse" -> PrefetchReverse(r, owners, q)
    [] r.kind = "m2m" -> PrefetchM2M(r, owners, q)

\* The query set a call on row.seg starts from: a foreign key lookup, or membership in the
\* through rows.
ManagerQuery(m, row, seg) ==
  LET r == Rel(m, seg) IN
  IF r.kind = "reverse" THEN Filter(Query(r.model), <<>>, <<Exactly(r.near, row.id)>>)
  ELSE Filter(Query(r.model), <<>>, <<Among("id", {t[r.far] : t \in {x \in db.through : x[r.near] = row.id}})>>)

-----------------------------------------------------------------------------
(* What the writing calls change. *)

\* The ids a HAVING leaves, over the joins of the annotations it names.
PkHavingSubselect(q) ==
  LET named == UNION {{Head(q.having[i].group[j].path) : j \in DOMAIN q.having[i].group} : i \in DOMAIN q.having}
      segs == Aggregated(q, named)
      having == CompileHaving(q)
      Kept(joined) ==
        joined # {} /\ KeptBy(having, [n \in named |-> Aggregate(q.annotations[n], joined)])
  IN  Ids({row \in Matching(q) : Kept(Joined(q.model, row, segs))})

\* Mutant: a write that forgets HAVING.
ConditionIds(q) == Ids(Matching(q))
WrittenIds(q) == IF q.having # <<>> THEN PkHavingSubselect(q) ELSE Ids(Matching(q))

\* Mutant: the conditions of an OR count as well.
RECURSIVE ImpliedByAny(_, _)
ImpliedByAny(m, q) ==
  LET Plain(l) == l.op = "exact" /\ Len(l.path) = 1 /\ ColumnOf(m, Head(l.path)) \in Columns[m] \cup {"id"}
  IN  IF q.negated THEN <<>>
      ELSE SelectSeq(q.filters, Plain)
           \o FlattenSeq([i \in DOMAIN q.children |-> ImpliedByAny(m, q.children[i])])
\* What every row of the query set is known to hold: the plain equalities no OR or NOT is over.
RECURSIVE ImpliedBy(_, _)
ImpliedBy(m, q) ==
  LET Plain(l) == l.op = "exact" /\ Len(l.path) = 1 /\ ColumnOf(m, Head(l.path)) \in Columns[m] \cup {"id"}
      own == SelectSeq(q.filters, Plain)
      alternatives == q.connector # "AND" /\ Len(q.children) + Len(q.filters) > 1
  IN  IF q.negated \/ alternatives THEN <<>>
      ELSE own \o FlattenSeq([i \in DOMAIN q.children |-> ImpliedBy(m, q.children[i])])
FilterCreateKwargs(q) ==
  FlattenSeq([i \in DOMAIN q.conditions |-> ImpliedBy(q.model, q.conditions[i])])

\* The value of a column in keyword arguments given one after the other: the last one.
ValueIn(m, lookups, col) ==
  LET at == {i \in DOMAIN lookups : ColumnOf(m, Head(lookups[i].path)) = col}
  IN  IF at = {} THEN Null ELSE lookups[Max(at)].value

=============================================================================
