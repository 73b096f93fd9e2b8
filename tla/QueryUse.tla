------------------------------ MODULE QueryUse ------------------------------
(***************************************************************************)
(* A program that builds query sets call by call and runs them against a   *)
(* small database, reading and writing (queryset.py, prefetch.py and the   *)
(* managers of relations.py).                                              *)
(***************************************************************************)
EXTENDS QuerySet

CONSTANTS
  Worlds,          \* the databases a program starts with
  FilterCalls,     \* [model -> the arguments of filter() and exclude(), [args, lookups]]
  OrderCalls,      \* [model -> the keys of order_by()]
  AnnotateCalls,   \* [model -> the <<name, Count>> of annotate()]
  GroupCalls,      \* [model -> the columns of group_by()]
  RelatedCalls,    \* [model -> the relations of select_related()]
  Slices,          \* the <<start, stop>> of [start:stop]
  Updates,         \* [model -> the <<column, value>> of update()]
  CreateCalls,     \* [model -> the lookups of get_or_create()]
  LinksCascade,    \* whether deleting a row deletes its through rows (SQL Server: not)
  MaxCalls         \* bound on the calls of one program

VARIABLES qs, calls, answer

vars == <<db, qs, calls, answer>>

\* What the last call answered: nothing, the row count of update() or delete(), the row of
\* get_or_create(), or an exception.
Answer(call, value, lookups) == [call |-> call, value |-> value, lookups |-> lookups]
NoAnswer == Answer("none", Null, <<>>)
Refused == Answer("raised", Null, <<>>)

Init ==
  /\ db \in Worlds
  /\ qs \in {Query(m) : m \in Models}
  /\ calls = 0
  /\ answer = NoAnswer

Call == calls < MaxCalls /\ calls' = calls + 1

-----------------------------------------------------------------------------
(* Building. *)

Builds(q) == Call /\ Orderable(q) /\ qs' = q /\ answer' = NoAnswer /\ UNCHANGED db

\* A name that is no annotation, field or relation raises FieldError.
Known(path) ==
  Head(path) \in {"id"} \cup DOMAIN qs.annotations \cup Columns[qs.model] \cup DOMAIN Relations[qs.model]
KnownAll(items) == \A i \in DOMAIN items : Known(items[i].path)

FilterRows ==
  \E c \in FilterCalls[qs.model] : KnownAll(c.lookups) /\ Builds(Filter(qs, c.args, c.lookups))
ExcludeRows ==
  \E c \in FilterCalls[qs.model] :
    KnownAll(c.lookups) /\ Excludable(qs, c.args, c.lookups) /\ Builds(Exclude(qs, c.args, c.lookups))
AnnotateRows == \E a \in AnnotateCalls[qs.model] : Builds(Annotate(qs, a[1], a[2]))
Order == \E keys \in OrderCalls[qs.model] : KnownAll(keys) /\ Builds(OrderBy(qs, keys))
GroupBy == \E col \in GroupCalls[qs.model] : Builds([qs EXCEPT !.groupBy = Append(@, col)])
SelectRelated == \E s \in RelatedCalls[qs.model] : Builds([qs EXCEPT !.related = Append(@, s)])
LimitTo == \E n \in {0, 1} : Builds(Limit(qs, n))
OffsetBy == Builds(Offset(qs, 1))
TakeSlice == \E s \in Slices : Builds(Slice(qs, s[1], s[2]))

-----------------------------------------------------------------------------
(* Writing.  A slice refuses update() and delete(). *)

\* A foreign key is set to NULL when its row goes.
Cleared(m, rows, ids) ==
  {[c \in DOMAIN row |->
      IF \E s \in DOMAIN Relations[m] :
           Rel(m, s).kind = "forward" /\ Rel(m, s).near = c /\ Rel(m, s).model = qs.model /\ row[c] \in ids
      THEN Null ELSE row[c]] : row \in rows}

\* The keys of a model in its through rows: of the relation it declares, of one declared to it.
M2MJoinTargets(m) ==
  {Rel(m, s).near : s \in {x \in DOMAIN Relations[m] : IsRelation(m, x, "m2m") /\ Rel(m, x).declared}}
  \cup UNION {{Rel(o, s).far : s \in {x \in DOMAIN Relations[o] :
                 IsRelation(o, x, "m2m") /\ Rel(o, x).declared /\ Rel(o, x).model = m}} : o \in Models}

LinkKeys(m) == {Rel(m, s).near : s \in {x \in DOMAIN Relations[m] : IsRelation(m, x, "m2m")}}
LinksOf(keys, ids) == {t \in db.through : \E k \in keys : t[k] \in ids}

\* The through rows first where the database would not take them along, and then the rows.
Delete ==
  /\ Call /\ ~IsSliced(qs)
  /\ \E ids \in {WrittenIds(qs)} :
       LET cleaned == IF LinksCascade THEN {} ELSE LinksOf(M2MJoinTargets(qs.model), ids)
           linked == LinksOf(LinkKeys(qs.model), ids)
           refused == ~LinksCascade /\ linked \ cleaned # {}
       IN  IF refused THEN db' = db /\ answer' = Refused
           ELSE /\ db' = [m \in DOMAIN db |->
                            CASE m = "through" -> db.through \ linked
                              [] m = qs.model -> {r \in Cleared(m, db[m], ids) : r.id \notin ids}
                              [] OTHER -> Cleared(m, db[m], ids)]
                /\ answer' = Answer("deleted", Cardinality(ids), <<>>)
  /\ UNCHANGED qs

Update ==
  /\ Call /\ ~IsSliced(qs)
  /\ \E u \in Updates[qs.model], ids \in {WrittenIds(qs)} :
       /\ db' = [db EXCEPT ![qs.model] =
                   {IF r.id \in ids THEN [r EXCEPT ![u[1]] = u[2]] ELSE r : r \in @}]
       /\ answer' = Answer("updated", Cardinality(ids), <<>>)
  /\ UNCHANGED qs

CreatedRow(lookups) ==
  LET values == FilterCreateKwargs(qs) \o lookups
      free == CHOOSE i \in 1..(Cardinality(db[qs.model]) + 1) : i \notin Ids(db[qs.model])
      given == ValueIn(qs.model, values, "id")
  IN  [c \in Columns[qs.model] \cup {"id"} |->
         IF c = "id" /\ given = Null THEN free ELSE ValueIn(qs.model, values, c)]

\* The database refuses a primary key it has and a foreign key it has not.
Insertable(m, row) ==
  /\ row.id \notin Ids(db[m])
  /\ \A s \in DOMAIN Relations[m] :
       Rel(m, s).kind = "forward" => row[Rel(m, s).near] \in Ids(db[Rel(m, s).model]) \cup {Null}

GetOrCreate ==
  /\ Call
  /\ \E lookups \in CreateCalls[qs.model] :
       \E found \in {GetOrNone(qs, lookups)}, row \in {CreatedRow(lookups)} :
         IF found = Null /\ Insertable(qs.model, row)
         THEN db' = [db EXCEPT ![qs.model] = @ \cup {row}] /\ answer' = Answer("got", row.id, lookups)
         ELSE /\ db' = db
              /\ answer' = IF found \in {Null, Raised} THEN Refused
                           ELSE Answer("got", found.row.id, lookups)
  /\ UNCHANGED qs

\* tags.add(), remove() and clear() of one row: an added pair that is there stays one.
Link ==
  /\ Call
  /\ \E s \in DOMAIN Relations[qs.model], row \in db[qs.model] :
       /\ Rel(qs.model, s).kind = "m2m"
       /\ \E far \in db[Rel(qs.model, s).model] :
            LET r == Rel(qs.model, s)
                pair == (r.near :> row.id) @@ (r.far :> far.id)
            IN  \E links \in {db.through \cup {pair}, db.through \ {pair}, 
                              {t \in db.through : t[r.near] # row.id}} :
                  db' = [db EXCEPT !.through = links]
  /\ answer' = NoAnswer
  /\ UNCHANGED qs

Next ==
  \/ FilterRows \/ ExcludeRows \/ AnnotateRows \/ Order \/ GroupBy \/ SelectRelated
  \/ LimitTo \/ OffsetBy \/ TakeSlice
  \/ Delete \/ Update \/ GetOrCreate \/ Link

Spec == Init /\ [][Next]_vars
-----------------------------------------------------------------------------
(* What the calls mean to the program that makes them, in two truth values. *)

RECURSIVE Meant(_, _, _)
MeantOfColumn(row, col, op, value) ==
  LET v == row[col] IN
  CASE op = "exact" -> v = value
    [] op = "not" -> v # value
    [] op = "in" -> v \in value
    [] op = "not_in" -> v \notin value
    [] op = "isnull" -> (v = Null) = value
    [] op = "not_isnull" -> (v # Null) = value
    [] op = "gt" -> v # Null /\ v > value
    [] op = "lte" -> v # Null /\ v <= value
    [] op = "column" -> v # Null /\ v = row[value]
MeantOfPartners(ids, op, value) ==
  CASE op = "exact" -> value \in ids
    [] op = "not" -> value \notin ids
    [] op = "in" -> ids \cap value # {}
    [] op = "isnull" -> (ids = {}) = value
    [] op = "not_isnull" -> (ids # {}) = value
Meant(m, row, l) ==
  LET seg == Head(l.path) IN
  CASE Len(l.path) > 1 ->
         \E x \in Partners(m, row, seg) : Meant(Rel(m, seg).model, x, [l EXCEPT !.path = Tail(@)])
    [] IsRelation(m, seg, "m2m") \/ IsRelation(m, seg, "reverse") ->
         MeantOfPartners(Ids(Partners(m, row, seg)), l.op, l.value)
    [] OTHER -> MeantOfColumn(row, ColumnOf(m, seg), l.op, l.value)

RECURSIVE MeantQ(_, _, _)
MeantQ(m, row, q) ==
  LET parts == {Meant(m, row, l) : l \in Range(q.filters)}
               \cup {MeantQ(m, row, c) : c \in Range(q.children)}
      holds == IF q.connector = "AND" \/ parts = {} THEN FALSE \notin parts ELSE TRUE \in parts
  IN  holds # (q.negated /\ parts # {})

\* Whether a lookup compares a NULL of the row, or of a child that belongs to no row.
SeesNull(m, row, l) ==
  LET seg == Head(l.path) IN
  IF Len(l.path) > 1
  THEN \/ Rel(m, seg).kind = "forward" /\ row[Rel(m, seg).near] = Null
       \/ Rel(m, seg).kind = "reverse" /\ \E x \in db[Rel(m, seg).model] : x[Rel(m, seg).near] = Null
  ELSE /\ l.op \in {"exact", "in", "gt", "lte", "column"} /\ l.value # Null
       /\ seg \in Columns[m] \cup {"id"} \/ IsRelation(m, seg, "forward")
       /\ row[ColumnOf(m, seg)] = Null \/ (l.op = "column" /\ row[l.value] = Null)
RECURSIVE SeesNullQ(_, _, _)
SeesNullQ(m, row, q) == \/ \E l \in Range(q.filters) : SeesNull(m, row, l)
                        \/ \E c \in Range(q.children) : SeesNullQ(m, row, c)
RECURSIVE Negates(_)
Negates(q) == q.negated \/ \E c \in Range(q.children) : Negates(c)

-----------------------------------------------------------------------------
(* Properties. *)

\* A window is never negative, what is grouped is not hydrated, and every column holds a
\* value or NULL.
TypeOK ==
  /\ qs.model \in Models
  /\ qs.limit \in Nat \cup {Null} /\ qs.offset \in Nat \cup {Null}
  /\ \A m \in Models : \A row \in db[m] :
       row.id \in Nat /\ \A c \in Columns[m] : row[c] \in Nat \cup {Null}

\* The rows of a query set are the rows all its filter() and exclude() calls mean, in whatever
\* order they were made (querying.md: an exclude() is the same as filter(~Q(...)), positional Qs
\* and lookups are ANDed).  A negated condition may lose the rows whose NULL it would have to
\* compare, no other.
ConditionsMeanTheCalls ==
  qs.having = <<>> =>
    \E shown \in {FetchedIds(Unsliced(qs))} : \A row \in db[qs.model] :
      \E meant \in {\A i \in DOMAIN qs.conditions : MeantQ(qs.model, row, qs.conditions[i])} :
      LET clear == \A i \in DOMAIN qs.conditions :
                     Negates(qs.conditions[i]) => ~SeesNullQ(qs.model, row, qs.conditions[i])
      IN  (row.id \in shown => meant) /\ (meant /\ clear => row.id \in shown)

\* Whether no join of one annotation multiplies what another one counts.
CountsApart(q) ==
  LET segs == Aggregated(q, DOMAIN q.annotations) IN
  \A n \in DOMAIN q.annotations :
    q.annotations[n].distinct \/ Cardinality(segs \cup {q.annotations[n].rel}) = 1

TrueCount(m, row, agg) == IF agg.rel = "id" THEN 1 ELSE Cardinality(Partners(m, row, agg.rel))
MeantByHaving(q, count) ==
  \A i \in DOMAIN q.having :
    q.having[i].negated #
      \A j \in DOMAIN q.having[i].group :
        LET l == q.having[i].group[j]
        IN  MeantOfColumn(count, Head(l.path), l.op, l.value)

\* annotate() counts each row's own partners, the rows without any included, and neither it nor
\* select_related() adds or drops a row; a filter() or exclude() over the counts keeps the rows
\* whose true counts it means (aggregation.md: exclude(books__gte=1) keeps authors with none).
AnnotationsAreTrue ==
  qs.groupBy = <<>> /\ CountsApart(qs) =>
    LET Counts(row) == [n \in DOMAIN qs.annotations |-> TrueCount(qs.model, row, qs.annotations[n])]
    IN  {[row |-> x.row, ann |-> x.ann] : x \in SelectRows(qs)}
          = {x \in {[row |-> r, ann |-> Counts(r)] : r \in Matching(qs)} : MeantByHaving(qs, x.ann)}

\* group_by() shows each value of its columns once, NULL too, with the number of rows that
\* have it.
GroupsPartition ==
  qs.groupBy # <<>> /\ qs.having = <<>> =>
    \E groups \in {SelectRows(qs)} :
    LET Members(x) == {r \in Matching(qs) :
                         \A i \in DOMAIN qs.groupBy : PathValue(qs.model, r, qs.groupBy[i]) = x.key[i]}
    IN  /\ \A x, y \in groups : x.key = y.key => x = y
        /\ \A r \in Matching(qs) : \E x \in groups : r \in Members(x)
        /\ \A x \in groups : \A n \in DOMAIN qs.annotations :
             LET agg == qs.annotations[n] IN
             agg.rel = "id" /\ (agg.distinct \/ Aggregated(qs, DOMAIN qs.annotations) = {})
               => x.ann[n] = Cardinality(Members(x))

\* A slice of a query set is that slice of its rows, whatever window the query set has already
\* (queryset.py:739), and an index the row there, or IndexError.
SliceOfResult ==
  \E rows \in {Fetch(qs)}, instances \in {FetchInstances(qs)} : \A s \in Slices :
    /\ Fetch(Slice(qs, s[1], s[2])) = Window(rows, IF s[2] = Null THEN Null ELSE Max({0, s[2] - s[1]}), s[1])
    /\ Index(qs, s[1]) = IF s[1] < Len(instances) THEN instances[s[1] + 1] ELSE Raised

\* count() and exists() speak of the rows a fetch returns: those that survive HAVING, the groups
\* of a grouped query, the window of a sliced one.
CountMatches ==
  \E rows \in {Fetch(qs)} : CountOf(qs) = Len(rows) /\ Exists(qs) = (rows # <<>>)

\* first() is the head of the rows and get() the only one; no row comes after last(), which
\* falls back on the primary key; earliest() and latest() sort first and last by their keys
\* where no order_by() came before.
EndsMatch ==
  qs.limit # 0 =>
    \E rows \in {FetchInstances(qs)}, last \in {LastOf(qs)} :
    LET plain == [qs EXCEPT !.groupBy = <<>>]
    IN  /\ FirstOf(qs) = HeadOf(rows)
        /\ qs.limit = Null => GetOrNone(qs, <<>>) = IF Len(rows) > 1 THEN Raised ELSE HeadOf(rows)
        /\ IsSliced(qs) <=> last = Raised
        /\ ~IsSliced(qs) =>
             /\ last = Null <=> rows = <<>>
             /\ rows # <<>> =>
                  /\ last \in Range(rows) /\ \A x \in Range(rows) : ~SortsBefore(plain, last, x)
                  /\ EffectiveOrder(qs) = <<>> => \A x \in Range(rows) : x.row.id <= last.row.id
        /\ ~IsSliced(qs) /\ qs.order = <<>> /\ rows # <<>> =>
             \A keys \in {k \in OrderCalls[qs.model] : KnownAll(k)} :
               \E earliest \in {Earliest(qs, keys)}, latest \in {Latest(qs, keys)} :
                 /\ {earliest, latest} \subseteq Range(rows)
                 /\ \A x \in Range(rows) : /\ ~SortsBefore([plain EXCEPT !.order = keys], x, earliest)
                                          /\ ~SortsBefore([plain EXCEPT !.order = keys], latest, x)

\* Inside another statement the query set's column holds no NULL, so filter(id__in=...) and
\* exclude(id__in=...) share out a model's rows (querying.md: "NULL-safe").
SubqueryIsNullSafe ==
  DOMAIN qs.annotations = {} /\ qs.groupBy = <<>> =>
    \A col \in Columns[qs.model] :
      \E lookup \in {<<Among("id", ProjectionValues(qs, col))>>} :
        \E kept \in {Matching(Filter(Query(qs.model), <<>>, lookup))},
           left \in {Matching(Exclude(Query(qs.model), <<>>, lookup))} :
             kept \cap left = {} /\ kept \cup left = db[qs.model]

\* Prefetch(relation, queryset) gives every owner its own window of its own rows of the query
\* set, in the query set's order (prefetch.py: a slice applies per owner).
PrefetchIsPerOwner ==
  \E rows \in {FetchInstances(Unsliced(qs))} :
    \A m \in Models : \A seg \in {s \in DOMAIN Relations[m] : Rel(m, s).model = qs.model} :
      \E got \in {Prefetched(m, seg, db[m], qs)} : \A o \in db[m] :
        LET Its(x) == x.row \in Partners(m, o, seg)
        IN  got[o] = Window(SelectSeq(rows, Its), qs.limit, qs.offset)

\* The manager of a relation, its prefetch with and without a query set, and a lookup across
\* it from either side tell the same rows.
RelationsAgree ==
  qs = Query(qs.model) =>
    LET m == qs.model IN
    \A seg \in {s \in DOMAIN Relations[m] : Rel(m, s).kind # "forward"} : \A row \in db[m] :
      LET partners == Partners(m, row, seg)
          target == Rel(m, seg).model
          Back(s) == Rel(target, s).model = m
          Finds(model, path, id) == FetchedIds(Filter(Query(model), <<>>, 
                                      <<[path |-> path, op |-> "exact", value |-> id]>>))
      IN  /\ FetchedIds(ManagerQuery(m, row, seg)) = Ids(partners)
          /\ Rel(m, seg).kind = "m2m" => \A owners \in {{row}, db[m]} :
               {j.row : j \in {k \in ThroughJoin(Rel(m, seg), owners) : k.owner = row.id}} = partners
          /\ Ids({x.row : x \in Range(Prefetched(m, seg, db[m], Query(target))[row])}) = Ids(partners)
          /\ \A x \in db[target] : x \in partners <=> row.id \in Finds(m, <<seg, "id">>, x.id)
          /\ \A s \in DOMAIN Relations[target] : Back(s) => Finds(target, <<s, "id">>, row.id) = Ids(partners)

\* What get_or_create() takes over from the query set's conditions is what every row of the
\* query set holds.
CreateKwargsAreImplied ==
  \A i \in DOMAIN FilterCreateKwargs(qs) :
    LET l == FilterCreateKwargs(qs)[i]
    IN  \A row \in Matching(qs) : row[ColumnOf(qs.model, Head(l.path))] = l.value

\* delete() and update() reach exactly the rows a fetch would have shown, answer with their
\* number, and are not stopped by the through rows of a database that does not cascade.
WritesMatchFetch ==
  [][\E shown \in {FetchedIds(qs)} :
     LET Counted == answer'.value = Cardinality(shown)
     IN  /\ Delete /\ CountsApart(qs) =>
              answer'.call = "deleted" /\ Counted /\ Ids(db'[qs.model]) = Ids(db[qs.model]) \ shown
         /\ answer'.call = "updated" /\ CountsApart(qs) =>
              /\ Counted
              /\ \A row \in db[qs.model] : row.id \notin shown => row \in db'[qs.model]
              /\ \E u \in Updates[qs.model] :
                   \A row \in db'[qs.model] : row.id \in shown => row[u[1]] = u[2]]_vars

\* Whether a condition says nothing but which values some columns hold.
RECURSIVE Leaves(_)
Leaves(q) == Len(q.filters) + FoldLeft(LAMBDA n, c : n + Leaves(c), 0, q.children)
Plain(q, lookups) ==
  LET values == FilterCreateKwargs(q) \o lookups
      leaves == FoldLeft(LAMBDA n, c : n + Leaves(c), 0, q.conditions)
  IN  /\ Len(FilterCreateKwargs(q)) = leaves
      /\ \A i, j \in DOMAIN values :
           ColumnOf(q.model, Head(values[i].path)) = ColumnOf(q.model, Head(values[j].path))
             => values[i].value = values[j].value

\* get_or_create() settles: the row it answers with is the one the same call finds next, also
\* for a lookup of NULL, so a second call creates nothing.
GetOrCreateSettles ==
  answer.call = "got" /\ qs.having = <<>> /\ ~IsSliced(qs) /\ Plain(qs, answer.lookups) =>
    answer.value \in FetchedIds(Filter(qs, <<>>, answer.lookups))

\* Every row annotate() or group_by() shows carries the counts it stands for.
CountsAreTrue == AnnotationsAreTrue /\ GroupsPartition

\* Slices, count(), exists(), first(), last(), get(), earliest() and latest() speak of the rows
\* a fetch returns, each through a statement of its own.
TerminalsMatchFetch == TypeOK /\ SliceOfResult /\ CountMatches /\ EndsMatch

\* A row that get_or_create() makes has what the query set asks for, so it finds it again.
CreatedIsFound == CreateKwargsAreImplied /\ GetOrCreateSettles

=============================================================================
