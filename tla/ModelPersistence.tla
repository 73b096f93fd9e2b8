-------------------------- MODULE ModelPersistence --------------------------
(***************************************************************************)
(* Instances of one model and the rows of its table (models.py): save,     *)
(* delete, get, get_or_create, update_or_create, the bulk operations,      *)
(* refresh_from_db, and the accessor of a foreign key with its cache.      *)
(* The model has a generated primary key, a key, a foreign key (author),   *)
(* a column with a database default (state) and an automatic time stamp.   *)
(* A call runs up to its first await, where its statement is on the wire;  *)
(* it goes on when the answer is back, or is cancelled there.              *)
(***************************************************************************)
EXTENDS Naturals, Sequences, FiniteSets, SequencesExt, Functions

CONSTANTS
  Tasks,         \* tasks of the event loop
  Keys,          \* values of the key column
  Authors,       \* primary keys of the model the foreign key leads to
  None,          \* NULL, None
  OwnId,         \* a primary key chosen by the caller, which the database may come to as well
  Serials,       \* the last primary key generated so far, by rows that are gone
  Declarations,  \* how the model and its dialect may be declared, see Declaration
  NewRecords,    \* values for a new instance
  Lookups,       \* the key and the defaults of get_or_create and update_or_create
  Batches,       \* pairs of records for the bulk calls
  Partial,       \* fields named by save(update_fields=) or bulk_update
  MaxObjs,       \* bound: instances made in all
  MaxCalls       \* bound: calls and attribute writes made in all

\* returning: INSERT ... RETURNING (not on MySQL); multirow: many rows per INSERT (not
\* on Oracle); advances: a chosen primary key moves the sequence on (not on PostgreSQL
\* and Oracle); fetch: Meta.fetch_db_defaults; unique: the key column is unique;
\* stamp: the stamp is auto_now_add ("add"), auto_now ("now") or both.
Declaration == [returning : BOOLEAN, multirow : BOOLEAN, advances : BOOLEAN, fetch : BOOLEAN,
                unique : BOOLEAN, stamp : {"add", "now", "both"}]

\* The values a caller gives; None is a value not given.
Record == [id : {None, OwnId}, key : Keys, author : Authors \cup {None},
           state : {None, "shut"}, stamp : {None, 0}]

Columns == {"key", "author", "state", "stamp"}
States == {"open", "shut"}
Absent == "absent"        \* no entry in the _prefetch cache of an instance

\* Only the second record of a batch may choose its primary key; an empty list of fields
\* writes nothing, and naming them all is no partial write.
ASSUME PersistenceAssumption ==
  /\ NewRecords \cup Lookups \subseteq Record /\ Batches \subseteq Record \X Record
  /\ \A rec \in Lookups : rec.id = None
  /\ \A recs \in Batches : recs[1].id = None
  /\ Declarations \subseteq Declaration /\ Partial \subseteq (SUBSET Columns) \ {{}, Columns}
  /\ MaxObjs \in Nat /\ MaxCalls \in Nat
  /\ None \notin Keys \cup Authors \cup Nat \cup {"open", "shut", "absent", "awaitable"}
  /\ {"absent", "awaitable"} \cap Authors = {}
  /\ OwnId \in Nat /\ Serials \subseteq Nat

VARIABLES
  decl,     \* the declaration of this behaviour
  rows,     \* the table: primary key -> row
  serial,   \* the last primary key generated
  objs,     \* the instances made so far
  job,      \* the call each task is in
  calls,    \* calls so far, which is also the time
  clean,    \* history: the columns of an instance nobody touched since they were stored
  spoilt,   \* history: instances used by two calls at once, or by a cancelled one
  lost,     \* history: a refresh of database defaults did not come back, or not in time,
            \* or a partial write named the column before it was read
  refused   \* history: calls refused although nobody else wrote meanwhile

vars == <<decl, rows, serial, objs, job, calls, clean, spoilt, lost, refused>>
histories == <<clean, spoilt, lost, refused>>

Idle == [op |-> "idle", now |-> 0, todo |-> <<>>, stmt |-> [kind |-> "none"],
         records |-> <<>>, results |-> <<>>, alone |-> TRUE]

Init ==
  /\ decl \in Declarations
  /\ rows = <<>> /\ serial \in Serials /\ objs = <<>> /\ calls = 0
  /\ job = [t \in Tasks |-> Idle]
  /\ clean = <<>> /\ spoilt = {} /\ lost = FALSE /\ refused = {}

-----------------------------------------------------------------------------
(* Instances. *)

New(record) == [in_db |-> FALSE, id |-> record.id, key |-> record.key, author |-> record.author,
                state |-> record.state, stamp |-> record.stamp, marks |-> FALSE, cache |-> Absent]

FromDbRow(id, row) == [in_db |-> TRUE, id |-> id, key |-> row.key, author |-> row.author,
                       state |-> row.state, stamp |-> row.stamp, marks |-> FALSE,
                       cache |-> Absent]

\* A mutant: a partial save stamps a column it does not list.
AutoNowAlways(ob, cols, now) ==
  IF decl.stamp = "now" \/ ~ob.in_db THEN [ob EXCEPT !.stamp = now] ELSE ob

\* save() of a new row fills an auto_now_add stamp that is unset, auto_now always
\* stamps; a partial save stamps only a column it lists.
ApplyAutoNow(ob, cols, now) ==
  LET stamps == /\ "stamp" \in cols
                /\ \/ decl.stamp = "now"
                   \/ decl.stamp = "both" /\ ~ob.in_db
                   \/ decl.stamp = "add" /\ ~ob.in_db /\ ob.stamp = None
  IN IF stamps THEN [ob EXCEPT !.stamp = now] ELSE ob

\* bulk_create stamps a new row whatever value it was given.
BulkAutoNow(ob, now) ==
  IF decl.stamp = "now" \/ ~ob.in_db THEN [ob EXCEPT !.stamp = now] ELSE ob

\* A database default that is still None in memory was filled in and never read.
MarkUnfetched(ob) == [ob EXCEPT !.marks = ob.marks \/ ob.state = None]

\* Writing an attribute: a write to the column of the database default takes its mark
\* off; one to the relation itself replaces what the accessor serves.
SetAttr(ob, col, v) ==
  [ob EXCEPT ![col] = v, !.marks = ob.marks /\ col # "state"]

SetRelation(ob, a, isModel) ==
  [ob EXCEPT !.author = a, !.cache = IF isModel THEN a ELSE Absent]

\* A mutant: an update from a dict empties the cache of the relation.
UpdateForgets(ob, record, cols) ==
  [c \in DOMAIN ob |-> IF c \in cols THEN record[c]
                       ELSE IF c = "marks" THEN ob.marks /\ "state" \notin cols
                       ELSE IF c = "cache" THEN Absent ELSE ob[c]]

UpdateFromDict(ob, record, cols) ==
  [c \in DOMAIN ob |-> IF c \in cols THEN record[c]
                       ELSE IF c = "marks" THEN ob.marks /\ "state" \notin cols
                       ELSE ob[c]]

Clone(ob) == [ob EXCEPT !.in_db = FALSE, !.id = None, !.marks = FALSE, !.cache = Absent]

\* What the accessor of the relation gives without an await: a cached instance while
\* the column names it, or a None that a prefetch found; "awaitable" otherwise.
Served(ob) ==
  IF ob.cache = None THEN None
  ELSE IF ob.cache # Absent /\ ob.cache = ob.author THEN ob.cache
  ELSE "awaitable"

-----------------------------------------------------------------------------
(* Statements.  A call is a sequence of work items; an item is bound to a statement *)
(* when the one before it is answered.                                             *)

Save(o, cols) == [do |-> "save", o |-> o, cols |-> cols]
Insert(os) == [do |-> "insert", os |-> os]
Update(os, cols) == [do |-> "update", os |-> os, cols |-> cols]
Refuse == [do |-> "refuse"]

InsertValues(o, ob) == [id |-> ob.id, key |-> ob.key, author |-> ob.author,
                        state |-> ob.state, stamp |-> ob.stamp, by |-> o]

Values(ob, cols) == [c \in cols |-> ob[c]]

\* A mutant: a full save writes the defaults that were never read as well.
BindSaveUnread(os, o, cols, now) ==
  LET ob == ApplyAutoNow(os[o], IF os[o].in_db THEN cols ELSE Columns, now)
  IN [objs |-> [os EXCEPT ![o] = ob],
      stmt |-> IF ~ob.in_db
               THEN [kind |-> "insert", one |-> TRUE, os |-> <<o>>, values |-> <<InsertValues(o, ob)>>]
               ELSE [kind |-> "update", os |-> <<o>>, ids |-> <<ob.id>>, values |-> <<Values(ob, cols)>>]]

\* _perform_save: a new instance is inserted; update_fields are written as listed; a
\* full save leaves out database defaults that were never read.
BindSave(os, o, cols, now) ==
  LET ob == ApplyAutoNow(os[o], IF os[o].in_db THEN cols ELSE Columns, now)
      written == IF cols = Columns /\ ob.marks THEN Columns \ {"state"} ELSE cols
  IN [objs |-> [os EXCEPT ![o] = ob],
      stmt |-> IF ~ob.in_db
               THEN [kind |-> "insert", one |-> TRUE, os |-> <<o>>, values |-> <<InsertValues(o, ob)>>]
               ELSE [kind |-> "update", os |-> <<o>>, ids |-> <<ob.id>>,
                     values |-> <<Values(ob, written)>>]]

BindInsert(os, batch, now) ==
  LET after == [o \in DOMAIN os |-> IF o \in ToSet(batch) THEN BulkAutoNow(os[o], now) ELSE os[o]]
  IN [objs |-> after,
      stmt |-> [kind |-> "insert", one |-> FALSE, os |-> batch,
                values |-> [i \in DOMAIN batch |-> InsertValues(batch[i], after[batch[i]])]]]

\* bulk_update adds the auto_now columns to those it was asked to write.
BindUpdate(os, batch, cols, now) ==
  LET after == [o \in DOMAIN os |->
                  IF o \in ToSet(batch) /\ decl.stamp # "add"
                  THEN ApplyAutoNow(os[o], Columns, now) ELSE os[o]]
      written == IF decl.stamp = "add" THEN cols ELSE cols \cup {"stamp"}
  IN [objs |-> after,
      stmt |-> [kind |-> "update", os |-> batch,
                ids |-> [i \in DOMAIN batch |-> os[batch[i]].id],
                values |-> [i \in DOMAIN batch |-> Values(after[batch[i]], written)]]]

BindUpsert(os, batch, cols, now) ==
  LET bound == BindInsert(os, batch, now)
  IN [bound EXCEPT !.stmt = [kind |-> "upsert", os |-> batch, cols |-> cols,
                             values |-> bound.stmt.values]]

Bind(item, os, now) ==
  CASE item.do = "save"   -> BindSave(os, item.o, item.cols, now)
    [] item.do = "insert" -> BindInsert(os, item.os, now)
    [] item.do = "upsert" -> BindUpsert(os, item.os, item.cols, now)
    [] item.do = "update" -> BindUpdate(os, item.os, item.cols, now)
    [] item.do = "refuse" -> [objs |-> os, stmt |-> [kind |-> "refuse", os |-> <<>>]]
    [] item.do = "find"   -> [objs |-> os, stmt |-> [kind |-> "find", os |-> <<>>, keys |-> item.keys]]
    [] item.do = "prefetch" ->
         [objs |-> os, stmt |-> [kind |-> "prefetch", os |-> item.os,
                                 ids |-> {os[o].author : o \in ToSet(item.os)} \ {None}]]
    [] OTHER -> [objs |-> os, stmt |-> [kind |-> item.do, os |-> <<item.o>>, id |-> os[item.o].id,
                                        author |-> os[item.o].author]]

-----------------------------------------------------------------------------
(* bulk_create: how a list of new instances becomes INSERTs. *)

\* SelectSeq by membership in S, written as a fold.
Those(seq, S) == FoldLeft(LAMBDA acc, x : IF x \in S THEN Append(acc, x) ELSE acc, <<>>, seq)

Grouped(os, batch) ==
  LET given == Those(batch, {o \in DOMAIN os : os[o].state # None})
      unset == Those(batch, {o \in DOMAIN os : os[o].state = None})
  IN IF given = <<>> \/ unset = <<>> THEN <<batch>>
     ELSE IF os[batch[1]].state = None THEN <<unset, given>> ELSE <<given, unset>>

\* Instances that give the database default and those that leave it out go into
\* statements of their own, in the order the groups first appear.
Statements(os, batch) ==
  LET groups == Grouped(os, batch)
      split(g) == IF decl.multirow THEN <<Insert(g)>> ELSE [i \in DOMAIN g |-> Insert(<<g[i]>>)]
  IN FlattenSeq([i \in DOMAIN groups |-> split(groups[i])])

WithPk(os, batch) == Those(batch, {o \in DOMAIN os : os[o].id # None})
WithoutPk(os, batch) == Those(batch, {o \in DOMAIN os : os[o].id = None})

\* A mix of chosen and generated primary keys is refused.
BulkCreate(os, batch) ==
  IF batch = <<>> THEN <<>>
  ELSE IF WithPk(os, batch) # <<>> /\ WithoutPk(os, batch) # <<>> THEN <<Refuse>>
  ELSE Statements(os, batch)

\* A mutant: chosen and generated primary keys go into one bulk_create.
BulkCreateMixed(os, batch) == BulkCreate(os, batch)

BulkCreatePartitioned(os, batch) ==
  IF WithPk(os, batch) # <<>> /\ WithoutPk(os, batch) # <<>>
  THEN BulkCreate(os, WithPk(os, batch)) \o BulkCreate(os, WithoutPk(os, batch))
  ELSE BulkCreate(os, batch)

-----------------------------------------------------------------------------
(* The database executes a statement. *)

UniqueKeys(rs) ==
  decl.unique => \A p, q \in DOMAIN rs : rs[p].key = rs[q].key => p = q

Stored(v) == [key |-> v.key, author |-> v.author, stamp |-> v.stamp, by |-> v.by,
              state |-> IF v.state = None THEN "open" ELSE v.state]

\* One INSERT takes consecutive generated keys, in the order of its VALUES.
InsertedIds(values) ==
  [i \in DOMAIN values |->
     IF values[i].id # None THEN values[i].id
     ELSE serial + Cardinality({j \in 1 .. i : values[j].id = None})]

Generated(values) == Cardinality({i \in DOMAIN values : values[i].id = None})

\* The last key of the sequence after an INSERT.
Sequence(values) ==
  LET last == serial + Generated(values)
      chosen == \E i \in DOMAIN values : values[i].id = OwnId
  IN IF decl.advances /\ chosen /\ last < OwnId THEN OwnId ELSE last

\* A generated key of the INSERT is one that a caller chose before.
Clashes(values) ==
  /\ ~decl.advances /\ OwnId \in DOMAIN rows
  /\ \E i \in DOMAIN values : values[i].id = None /\ InsertedIds(values)[i] = OwnId

ExecuteInsert(values) ==
  LET ids == InsertedIds(values)
      after == [p \in ToSet(ids) \cup DOMAIN rows |->
                  IF p \in ToSet(ids) THEN Stored(values[CHOOSE i \in DOMAIN ids : ids[i] = p])
                  ELSE rows[p]]
  IN [ok |-> /\ IsInjective(ids) /\ ToSet(ids) \cap DOMAIN rows = {}
             /\ UniqueKeys(after)
             /\ decl.unique => IsInjective([i \in DOMAIN values |-> values[i].key]),
      rows |-> after, serial |-> Sequence(values), ids |-> ids]

\* A row that exists is skipped, or gets the columns that are to be updated.  When the
\* generated key is taken, ON CONFLICT DO NOTHING skips the row too; the others refuse it.
Upserted(acc, v, cols) ==
  LET there == {p \in DOMAIN acc.rows : acc.rows[p].key = v.key}
      taken == acc.serial + 1 \in DOMAIN acc.rows
  IN IF there = {} /\ taken
     THEN [acc EXCEPT !.serial = @ + 1, !.ok = @ /\ cols = {} /\ decl.multirow]
     ELSE IF there = {}
     THEN [acc EXCEPT !.serial = @ + 1,
                      !.rows = [p \in {acc.serial + 1} \cup DOMAIN acc.rows |->
                                  IF p = acc.serial + 1 THEN Stored(v) ELSE acc.rows[p]]]
     ELSE [acc EXCEPT !.rows = [p \in DOMAIN acc.rows |->
             IF p \in there THEN [c \in DOMAIN acc.rows[p] |->
                                    IF c \in cols THEN v[c] ELSE acc.rows[p][c]]
             ELSE acc.rows[p]]]

ExecuteUpsert(values, cols) ==
  FoldLeft(LAMBDA acc, v : Upserted(acc, v, cols),
           [ok |-> TRUE, rows |-> rows, serial |-> serial, ids |-> <<>>], values)

ExecuteUpdate(ids, values) ==
  LET row(p) == LET hits == {i \in DOMAIN ids : ids[i] = p}
                    v == values[CHOOSE i \in hits : \A j \in hits : i <= j]
                IN IF hits = {} THEN rows[p]
                   ELSE [c \in DOMAIN rows[p] |-> IF c \in DOMAIN v THEN v[c] ELSE rows[p][c]]
      after == [p \in DOMAIN rows |-> row(p)]
  IN [ok |-> UniqueKeys(after), rows |-> after, serial |-> serial, ids |-> ids]

Execute(stmt) ==
  CASE stmt.kind = "insert" -> ExecuteInsert(stmt.values)
    [] stmt.kind = "upsert" -> ExecuteUpsert(stmt.values, stmt.cols)
    [] stmt.kind = "update" -> ExecuteUpdate(stmt.ids, stmt.values)
    [] stmt.kind = "delete" -> [ok |-> TRUE, rows |-> RestrictDomain(rows, LAMBDA p : p # stmt.id),
                                serial |-> serial, ids |-> <<stmt.id>>]
    [] OTHER -> [ok |-> stmt.kind # "refuse", rows |-> rows, serial |-> serial, ids |-> <<>>]

-----------------------------------------------------------------------------
(* What a call does with an answer: the instances, the work that is left and the   *)
(* results so far, or that the call raises.                                        *)

Answer(os, todo, results) == [ok |-> TRUE, objs |-> os, todo |-> todo, results |-> results]
Raises == [ok |-> FALSE]

\* INSERT ... RETURNING brings the database default along; without it a SELECT has to
\* follow, and the column is only marked as unread once that is back.
ResumeInsert(j, e, os) ==
  LET o == j.stmt.os[1]
      ob == [os[o] EXCEPT !.id = e.ids[1], !.in_db = TRUE]
      read == [ob EXCEPT !.state = e.rows[e.ids[1]].state, !.marks = FALSE]
  IN IF ~decl.fetch THEN Answer([os EXCEPT ![o] = MarkUnfetched(ob)], j.todo, j.results)
     ELSE IF decl.returning THEN Answer([os EXCEPT ![o] = read], j.todo, j.results)
     ELSE Answer([os EXCEPT ![o] = ob], <<[do |-> "defaults", o |-> o]>> \o j.todo, j.results)

\* A mutant: generated keys are handed out in the opposite order.
BackfillReversed(j, e, os) ==
  LET saved(i) == MarkUnfetched([os[j.stmt.os[i]] EXCEPT !.id = Reverse(e.ids)[i], !.in_db = TRUE])
  IN Answer([o \in DOMAIN os |-> IF o \in ToSet(j.stmt.os)
                                 THEN saved(CHOOSE i \in DOMAIN j.stmt.os : j.stmt.os[i] = o) ELSE os[o]],
            j.todo, j.results)

ResumeBulkInsert(j, e, os) ==
  LET saved(i) == MarkUnfetched([os[j.stmt.os[i]] EXCEPT !.id = e.ids[i], !.in_db = TRUE])
      place(o) == CHOOSE i \in DOMAIN j.stmt.os : j.stmt.os[i] = o
  IN Answer([o \in DOMAIN os |-> IF o \in ToSet(j.stmt.os) THEN saved(place(o)) ELSE os[o]],
            j.todo, j.results)

ResumeDefaults(j, e, os) ==
  LET o == j.stmt.os[1]
  IN IF j.stmt.id \notin DOMAIN e.rows THEN Raises
     ELSE Answer([os EXCEPT ![o] = MarkUnfetched(SetAttr(@, "state", e.rows[j.stmt.id].state))],
                 j.todo, j.results)

\* refresh_from_db copies every column of the row read.
ResumeReload(j, e, os) ==
  LET o == j.stmt.os[1]
      row == e.rows[j.stmt.id]
  IN IF j.stmt.id \notin DOMAIN e.rows THEN Raises
     ELSE Answer([os EXCEPT ![o] = UpdateFromDict(@, row, Columns)], j.todo, j.results)

\* The related row is cached under the relation's name, whatever key the instance has
\* by now.
ResumeRelation(j, os) ==
  Answer([os EXCEPT ![j.stmt.os[1]].cache = j.stmt.author], j.todo, j.results)

\* Each instance gets the row of its present key out of those that were read.
ResumePrefetch(j, os) ==
  Answer([o \in DOMAIN os |->
            IF o \notin ToSet(j.stmt.os) THEN os[o]
            ELSE [os[o] EXCEPT !.cache = IF os[o].author \in j.stmt.ids THEN os[o].author ELSE None]],
         j.todo, j.results)

Result(o, created) == [o |-> o, created |-> created]
Matching(e, k) == {p \in DOMAIN e.rows : e.rows[p].key = k}

\* get, get_or_create and update_or_create: one row, none, or too many.
ResumeGet(j, e, os) ==
  LET rec == j.records[1]
      there == Matching(e, rec.key)
      o == Len(os) + 1
      found == FromDbRow(CHOOSE p \in there : TRUE, e.rows[CHOOSE p \in there : TRUE])
  IN IF Cardinality(there) > 1 THEN Raises
     ELSE IF there = {}
          THEN IF j.op = "get" THEN Raises
               ELSE Answer(Append(os, New(rec)), <<Save(o, Columns)>>, <<Result(o, TRUE)>>)
     ELSE IF j.op = "update_or_create"
          THEN Answer(Append(os, UpdateFromDict(found, rec, {"author"})), <<Save(o, Columns)>>,
                      <<Result(o, FALSE)>>)
     ELSE Answer(Append(os, found), <<>>, <<Result(o, FALSE)>>)

Given(rec) == {"author"} \cup (IF rec.state # None THEN {"state"} ELSE {})

\* A mutant: a key repeated within the batch gets an instance of its own.
BulkRecordAnew(acc, rec, j, e, pick) ==
  LET o == Len(acc.objs) + 1
  IN IF rec.key \in DOMAIN pick
     THEN [acc EXCEPT !.objs = Append(@, FromDbRow(pick[rec.key], e.rows[pick[rec.key]])),
                      !.results = Append(@, Result(o, FALSE))]
     ELSE [acc EXCEPT !.objs = Append(@, New(rec)), !.results = Append(@, Result(o, TRUE))]

\* One record of a batch: a row found, an instance made for an earlier record with the
\* same key, or a new instance.
BulkRecord(acc, rec, j, e, pick) ==
  LET o == Len(acc.objs) + 1
      known == {i \in DOMAIN acc.results : acc.objs[acc.results[i].o].key = rec.key}
      hit == acc.results[CHOOSE i \in known : \A k \in known : i <= k].o
      found == IF known # {} THEN acc.objs[hit] ELSE FromDbRow(pick[rec.key], e.rows[pick[rec.key]])
      place == IF known # {} THEN hit ELSE o
      kept == IF j.op = "bulk_update_or_create" /\ found.in_db
              THEN UpdateFromDict(found, rec, Given(rec)) ELSE found
  IN IF known # {} \/ rec.key \in DOMAIN pick
     THEN [acc EXCEPT !.objs = IF known # {} THEN [@ EXCEPT ![place] = kept] ELSE Append(@, kept),
                      !.results = Append(@, Result(place, FALSE))]
     ELSE [acc EXCEPT !.objs = Append(@, New(rec)), !.results = Append(@, Result(o, TRUE))]

\* bulk_get_or_create and bulk_update_or_create after their one SELECT; pick is the
\* row the SELECT listed last for each key it found.
ResumeBulk(j, e, os, pick) ==
  LET acc == FoldLeft(LAMBDA a, rec : BulkRecord(a, rec, j, e, pick),
                      [objs |-> os, results |-> <<>>], j.records)
      mine == [i \in 1 .. Len(acc.objs) - Len(os) |-> Len(os) + i]
      create == Those(mine, {o \in DOMAIN acc.objs : ~acc.objs[o].in_db})
      stale == Those(mine, {o \in DOMAIN acc.objs : acc.objs[o].in_db})
      cols == UNION {Given(rec) : rec \in ToSet(j.records)}
      update == IF j.op = "bulk_update_or_create" /\ stale # <<>>
                THEN <<Update(stale, cols)>> ELSE <<>>
  IN Answer(acc.objs, BulkCreatePartitioned(acc.objs, create) \o update, acc.results)

Resume(j, e, os, pick) ==
  CASE ~e.ok -> Raises
    [] e.ok /\ j.stmt.kind = "insert" /\ j.stmt.one -> ResumeInsert(j, e, os)
    [] e.ok /\ j.stmt.kind = "insert" /\ ~j.stmt.one -> ResumeBulkInsert(j, e, os)
    [] e.ok /\ j.stmt.kind = "delete" -> Answer([os EXCEPT ![j.stmt.os[1]].in_db = FALSE], j.todo, j.results)
    [] e.ok /\ j.stmt.kind = "defaults" -> ResumeDefaults(j, e, os)
    [] e.ok /\ j.stmt.kind = "reload" -> ResumeReload(j, e, os)
    [] e.ok /\ j.stmt.kind = "relation" -> ResumeRelation(j, os)
    [] e.ok /\ j.stmt.kind = "prefetch" -> ResumePrefetch(j, os)
    [] e.ok /\ j.stmt.kind = "find" /\ j.op \in {"get", "get_or_create", "update_or_create"} ->
         ResumeGet(j, e, os)
    [] e.ok /\ j.stmt.kind = "find" /\ j.op \in {"bulk_get_or_create", "bulk_update_or_create"} ->
         ResumeBulk(j, e, os, pick)
    [] OTHER -> Answer(os, j.todo, j.results)

-----------------------------------------------------------------------------
(* Calls. *)

Objs == DOMAIN objs

\* Instances made inside a call are nobody else's before it returns.
Private == UNION {{r.o : r \in ToSet(job[t].results)} : t \in Tasks}
UsedBy(stmt) == IF stmt.kind \in {"relation", "prefetch", "none"} THEN {} ELSE ToSet(stmt.os)
Busy == UNION {UsedBy(job[t].stmt) : t \in Tasks}
Usable == Objs \ Private

Forget(c, os) == [o \in DOMAIN c |-> IF o \in os THEN {} ELSE c[o]]

\* Go on with the work that is left, or return.
Continue(js, t, j, os, todo, results) ==
  IF todo = <<>> THEN objs' = os /\ job' = [js EXCEPT ![t] = Idle]
  ELSE \E b \in {Bind(Head(todo), os, j.now)} :
          /\ objs' = b.objs
          /\ job' = [js EXCEPT ![t] = [j EXCEPT !.todo = Tail(todo), !.stmt = b.stmt,
                                               !.results = results]]

\* A partial write of the database default by an instance that has no value for it.
Blank(os, item) ==
  /\ item.do \in {"save", "update"} /\ item.cols # Columns /\ "state" \in item.cols
  /\ \E o \in IF item.do = "save" THEN {item.o} ELSE ToSet(item.os) : os[o].state = None

\* A call starts; used are the instances it is made on or with.  There must be room for
\* those it makes, one per record.
Begin(t, op, used, os, todo, records, results) ==
  /\ used \subseteq Usable
  /\ Len(objs) + Len(records) <= MaxObjs /\ Len(os) <= MaxObjs
  /\ calls' = calls + 1
  /\ Continue(job, t, [Idle EXCEPT !.op = op, !.now = calls + 1, !.records = records], os, todo, results)
  /\ spoilt' = spoilt \cup (used \cap Busy)
  /\ clean' = [o \in DOMAIN os |-> IF o \in Objs THEN Forget(clean, used \cap Busy)[o] ELSE {}]
  /\ lost' = (\/ lost \/ Blank(os, Head(todo))
              \/ \E u \in Tasks : job[u].stmt.kind = "defaults" /\ job[u].stmt.os[1] \in used)
  /\ UNCHANGED <<decl, rows, serial, refused>>

Create(t) ==
  \E rec \in NewRecords :
    Begin(t, "create", {}, Append(objs, New(rec)), <<Save(Len(objs) + 1, Columns)>>, <<>>,
          <<Result(Len(objs) + 1, TRUE)>>)

SaveFull(t) == \E o \in Usable : Begin(t, "save", {o}, objs, <<Save(o, Columns)>>, <<>>, <<>>)

\* save(update_fields=) of an instance that is not stored yet writes all its columns.
SavePartial(t) ==
  \E o \in Usable, cols \in Partial :
    Begin(t, "save", {o}, objs, <<Save(o, IF objs[o].in_db THEN cols ELSE Columns)>>, <<>>, <<>>)

\* bulk_update of one or two stored instances, of different rows; a deleted instance, which
\* the code takes as well as long as it has its key, is left out.
BulkUpdate(t) ==
  \E o, u \in Usable, cols \in Partial :
    /\ o <= u /\ objs[o].in_db /\ objs[u].in_db /\ (o # u => objs[o].id # objs[u].id)
    /\ Begin(t, "bulk_update", {o, u}, objs,
             <<Update(IF o = u THEN <<o>> ELSE <<o, u>>, cols)>>, <<>>, <<>>)

Delete(t) == \E o \in Usable : Begin(t, "delete", {o}, objs, <<[do |-> "delete", o |-> o]>>, <<>>, <<>>)

\* Under the key that callers choose too, a refresh may bring the row of another instance,
\* with a key of its own: it is left out.
RefreshFromDb(t) ==
  \E o \in Usable :
    /\ objs[o].id # OwnId
    /\ Begin(t, "reload", {o}, objs, <<[do |-> "reload", o |-> o]>>, <<>>, <<>>)

\* get(key=), get_or_create and update_or_create(key=, defaults={author}).
Get(t) ==
  \E rec \in Lookups, op \in {"get", "get_or_create", "update_or_create"} :
    Begin(t, op, {}, objs, <<[do |-> "find", keys |-> {rec.key}]>>, <<rec>>, <<>>)

\* A primary key the caller chose must be free, or the batch is wrong on its own.
BulkGetOrCreate(t) ==
  \E recs \in Batches :
    /\ recs[2].id = OwnId => OwnId \notin DOMAIN rows /\ \A o \in Objs : objs[o].id # OwnId
    /\ Begin(t, "bulk_get_or_create", {}, objs,
             <<[do |-> "find", keys |-> {rec.key : rec \in ToSet(recs)}]>>, recs, <<>>)

BulkUpdateOrCreate(t) ==
  \E recs \in Batches :
    /\ recs[2].id = None
    /\ Begin(t, "bulk_update_or_create", {}, objs,
             <<[do |-> "find", keys |-> {rec.key : rec \in ToSet(recs)}]>>, recs, <<>>)

\* bulk_create of new instances with ignore_conflicts or update_fields; the primary keys
\* stay out of the statement.  One statement may not update a row twice.
BulkUpsert(t) ==
  \E recs \in Batches, cols \in {{}, {"author"}} :
    LET n == Len(objs)
    IN /\ decl.unique /\ recs[2].state = None /\ recs[2].id = None
       /\ cols # {} => recs[1].key # recs[2].key
       /\ Begin(t, "upsert", {}, objs \o <<New(recs[1]), New(recs[2])>>,
                <<[do |-> "upsert", os |-> <<n + 1, n + 2>>, cols |-> cols]>>, <<>>,
                <<Result(n + 1, FALSE), Result(n + 2, FALSE)>>)

LoadRelation(t) ==
  \E o \in Usable :
    /\ Served(objs[o]) = "awaitable" /\ objs[o].author # None
    /\ Begin(t, "relation", {}, [objs EXCEPT ![o].cache = Absent], <<[do |-> "relation", o |-> o]>>, <<>>, <<>>)

\* The relation of all instances at hand; without any key there is nothing to query.
Prefetch(t) ==
  /\ \E o \in Usable : objs[o].author # None
  /\ Begin(t, "prefetch", {}, objs, <<[do |-> "prefetch", os |-> SetToSortSeq(Usable, <)]>>, <<>>, <<>>)

\* An attribute written between calls; by any task, whatever call is under way.
Write(o, ob, col) ==
  /\ calls' = calls + 1
  /\ objs' = [objs EXCEPT ![o] = ob]
  /\ spoilt' = IF o \in Busy THEN spoilt \cup {o} ELSE spoilt
  /\ clean' = [clean EXCEPT ![o] = IF o \in Busy THEN {} ELSE @ \ {col}]
  /\ UNCHANGED <<decl, rows, serial, job, lost, refused>>

WriteAttribute ==
  /\ calls < MaxCalls
  /\ \/ \E o \in Usable : Write(o, SetAttr(objs[o], "state", "shut"), "state")
     \/ \E o \in Usable, a \in Authors \cup {None} : Write(o, SetAttr(objs[o], "author", a), "author")
     \/ \E o \in Usable, a \in Authors : Write(o, SetRelation(objs[o], a, TRUE), "author")
     \/ \E o \in Usable, a \in Authors \cup {None} : Write(o, SetRelation(objs[o], a, FALSE), "author")

Copy ==
  /\ calls < MaxCalls /\ Len(objs) < MaxObjs
  /\ \E o \in Usable :
       /\ objs' = Append(objs, Clone(objs[o])) /\ clean' = Append(clean, {})
       /\ calls' = calls + 1
       /\ UNCHANGED <<decl, rows, serial, job, spoilt, lost, refused>>

-----------------------------------------------------------------------------
(* Answers, failures and cancellation. *)

\* The columns a statement has written, per row.
WrittenTo(stmt, e, p) ==
  IF p \notin DOMAIN e.rows \/ p \notin DOMAIN rows THEN Columns
  ELSE {c \in Columns : e.rows[p][c] # rows[p][c]}

\* What agrees with the table after the answer to stmt was taken in.
Known(o, stmt, e, os) ==
  IF o \notin Objs THEN IF os[o].in_db THEN {c \in Columns : os[o][c] = e.rows[os[o].id][c]} ELSE {}
  ELSE IF o \in spoilt THEN {}
  ELSE IF o \in ToSet(stmt.os) /\ stmt.kind \in {"insert", "reload"} THEN Columns
  ELSE IF o \in ToSet(stmt.os) /\ stmt.kind = "update"
       THEN IF os[o].id \in DOMAIN e.rows THEN clean[o] \cup DOMAIN stmt.values[1] ELSE {}
  ELSE IF os[o].id \in DOMAIN rows \cup DOMAIN e.rows THEN clean[o] \ WrittenTo(stmt, e, os[o].id)
  ELSE clean[o]

\* The calls that find out by themselves what has to be inserted.
Promising == {"get_or_create", "update_or_create", "bulk_get_or_create", "bulk_update_or_create"}

\* Statements of others that changed rows while t is in a call.
Witnessed(js, t, changed) ==
  [u \in Tasks |-> IF u # t /\ changed /\ js[u].op \in Promising
                   THEN [js[u] EXCEPT !.alone = FALSE] ELSE js[u]]

Raised(t, j) ==
  /\ job' = [job EXCEPT ![t] = Idle]
  /\ spoilt' = spoilt \cup UsedBy(j.stmt)
  /\ clean' = Forget(clean, UsedBy(j.stmt))

Picks(e, keys) ==
  {f \in [{k \in keys : Matching(e, k) # {}} -> DOMAIN e.rows] :
     \A k \in DOMAIN f : e.rows[f[k]].key = k}

\* The answer arrives and the call goes on, to its next statement or its end.
Proceed(t) ==
  LET j == job[t]
  IN /\ j # Idle
     /\ \E e \in {Execute(j.stmt)} :
        \E pick \in IF j.stmt.kind = "find" THEN Picks(e, j.stmt.keys) ELSE {<<>>} :
          \E r \in {Resume(j, e, objs, pick)} :
             /\ r.ok /\ Len(r.objs) <= MaxObjs
             /\ rows' = e.rows /\ serial' = e.serial
             /\ Continue(Witnessed(job, t, e.rows # rows), t, j, r.objs, r.todo, r.results)
             /\ clean' = [o \in DOMAIN r.objs |-> Known(o, j.stmt, e, r.objs)]
             /\ UNCHANGED <<decl, calls, spoilt, lost, refused>>

\* The statement is refused, or the answer is not one the call can go on with.  The keys
\* generated for a refused INSERT may be used up.
Fail(t) ==
  LET j == job[t]
  IN /\ j # Idle
     /\ \E e \in {Execute(j.stmt)} :
          /\ \E pick \in IF j.stmt.kind = "find" THEN Picks(e, j.stmt.keys) ELSE {<<>>} :
               ~Resume(j, e, objs, pick).ok
          /\ serial' \in serial .. e.serial
          /\ refused' = IF /\ ~e.ok /\ j.op \in Promising /\ j.alone
                           /\ ~(j.stmt.kind = "insert" /\ Clashes(j.stmt.values))
                        THEN refused \cup {j.op} ELSE refused
     /\ Raised(t, j)
     /\ lost' = (lost \/ j.stmt.kind = "defaults")
     /\ UNCHANGED <<decl, rows, objs, calls>>

\* The task is cancelled at its await: the statement was executed, or never was.
Outcomes(e) ==
  {[rows |-> rows, serial |-> n] : n \in serial .. e.serial} \cup
  (IF e.ok THEN {[rows |-> e.rows, serial |-> e.serial]} ELSE {})

Cancel(t) ==
  LET j == job[t]
  IN /\ j # Idle
     /\ \E e \in Outcomes(Execute(j.stmt)) :
          /\ rows' = e.rows /\ serial' = e.serial
          /\ spoilt' = spoilt \cup UsedBy(j.stmt)
          /\ job' = [Witnessed(job, t, e.rows # rows) EXCEPT ![t] = Idle]
          /\ clean' = [o \in Objs |-> IF o \in spoilt' THEN {}
                                      ELSE Known(o, [j.stmt EXCEPT !.os = <<>>], e, objs)]
     /\ lost' = (lost \/ j.stmt.kind = "defaults")
     /\ UNCHANGED <<decl, objs, calls, refused>>

Call(t) ==
  /\ job[t] = Idle /\ calls < MaxCalls
  /\ \/ Create(t) \/ SaveFull(t) \/ SavePartial(t) \/ Delete(t) \/ RefreshFromDb(t) \/ Get(t)
     \/ BulkGetOrCreate(t) \/ BulkUpdateOrCreate(t) \/ BulkUpsert(t) \/ BulkUpdate(t)
     \/ LoadRelation(t) \/ Prefetch(t)

Next ==
  \/ \E t \in Tasks : Call(t) \/ Proceed(t) \/ Fail(t) \/ Cancel(t)
  \/ WriteAttribute \/ Copy

Spec == Init /\ [][Next]_vars

-----------------------------------------------------------------------------
(* Properties. *)

\* Every variable keeps its type.
TypeOK ==
  /\ decl \in Declarations /\ serial \in Nat /\ calls \in 0 .. MaxCalls
  /\ DOMAIN rows \subseteq Nat
  /\ \A p \in DOMAIN rows :
       rows[p] \in [key : Keys, author : Authors \cup {None}, state : States \cup {None},
                    stamp : 0 .. MaxCalls, by : Objs]
  /\ \A o \in Objs :
       objs[o] \in [in_db : BOOLEAN, id : Nat \cup {None}, key : Keys,
                    author : Authors \cup {None}, state : States \cup {None},
                    stamp : (0 .. MaxCalls) \cup {None}, marks : BOOLEAN,
                    cache : Authors \cup {None, Absent}]
  /\ Len(clean) = Len(objs) /\ \A o \in Objs : clean[o] \subseteq Columns
  /\ spoilt \subseteq Objs /\ lost \in BOOLEAN

\* A generated primary key that an instance carries is that of its own row, whatever was
\* inserted at the same time, however the keys came back, and also after a cancelled save
\* or a row that was deleted and inserted again (models.py:1297, 2625-2656).  The one key
\* that callers choose too may belong to several instances.
OwnRow ==
  \A o \in Objs :
    objs[o].id \in DOMAIN rows \ {OwnId} => rows[objs[o].id].key = objs[o].key

\* An instance leads to one row at most: only a cancelled save, or two saves of one new
\* instance at once, insert it twice (models.py:1359).
InsertedOnce ==
  \A p, q \in DOMAIN rows \ {OwnId} : p # q /\ rows[p].by = rows[q].by => rows[p].by \in spoilt

\* Nobody sets the state to NULL, so no save in full and no bulk call writes NULL over the
\* default the database filled in (models.py:1114-1131, 1509-1514), unless a partial write
\* named the column before it was read, or a refresh that did not come back has left an
\* instance without its mark.
DefaultKept == ~lost => \A p \in DOMAIN rows : rows[p].state # None

\* An instance of which nobody else wrote the row, and that was not written to since it
\* was stored or read, shows what the table has: a column is not stamped, or dropped, in
\* memory alone (models.py:1213-1236, 1345-1357).
MemoryIsStored ==
  \A o \in Objs \ Busy : objs[o].in_db => \A c \in clean[o] :
    /\ objs[o].id \in DOMAIN rows
    /\ \/ objs[o][c] = rows[objs[o].id][c]
       \/ c = "state" /\ objs[o].state = None /\ objs[o].marks

\* get_or_create, update_or_create and their bulk forms are only refused by the database
\* when another task wrote while they ran: repeated keys and chosen primary keys of one
\* batch do not make it fail (models.py:2065-2113, 2172-2311).  The exception is a
\* generated key that a caller chose before, where that does not move the sequence on; the
\* batch itself may have chosen it, as its chosen keys are inserted first (models.py:2190-2196).
AloneNeverFails == refused = {}

\* The answer of a query for related rows that was sent before the column got the key it has.
Overtaken(o) ==
  \E t \in Tasks :
    /\ job'[t] # job[t]
    /\ \/ job[t].stmt.kind = "relation" /\ job[t].stmt.os[1] = o /\ job[t].stmt.author # objs[o].author
       \/ job[t].stmt.kind = "prefetch" /\ o \in ToSet(job[t].stmt.os) /\ objs[o].author \notin job[t].stmt.ids

\* What the accessor of a relation serves without a query outlives every call that leaves
\* the column alone: saves, refreshes, bulk writes and other loads.  Only the answer of a
\* query the column has overtaken takes a cached instance away, and only a prefetch that
\* read no such key makes the accessor say None (relations.py:165-198, 260-280,
\* prefetch.py:222-252).
CacheFollows ==
  [][job' # job => \A o \in Objs : objs'[o].author = objs[o].author /\ ~Overtaken(o) =>
       \/ Served(objs'[o]) = Served(objs[o])
       \/ Served(objs[o]) = "awaitable" /\ Served(objs'[o]) = objs[o].author]_vars

\* The time a row was created never changes again under auto_now_add alone, also when the
\* row is deleted and inserted again by an instance that knew it (models.py:1221-1236).
StampStays ==
  decl.stamp = "add" =>
    \A p \in (DOMAIN rows \cap DOMAIN rows') \ {OwnId} : rows'[p].stamp = rows[p].stamp

Returned(t) ==
  /\ job[t] # Idle /\ job'[t] = Idle /\ job[t].todo = <<>>
  /\ job[t].stmt.os # <<>> /\ ToSet(job[t].stmt.os) \cap spoilt' = {}

\* The bulk calls return, in the order of their records, stored instances with the keys
\* of the records, the same one for the same key, and report exactly those as created
\* whose row they inserted, if it was not deleted and inserted again by another instance
\* meanwhile; only an upsert does not let its instance know, and it may come to the key that
\* callers choose too (models.py:2231-2245, 2288-2311).
BulkAnswers ==
  [][\A t \in Tasks :
       /\ Returned(t)
       /\ job[t].op \in {"bulk_get_or_create", "bulk_update_or_create"}
       => \A i \in DOMAIN job[t].records :
            LET r == job[t].results[i]
                first == \A k \in 1 .. i - 1 : job[t].results[k].o # r.o
                ob == objs'[r.o]
            IN /\ ob.in_db /\ ob.key = job[t].records[i].key
               /\ \A k \in DOMAIN job[t].records :
                    job[t].records[k].key = ob.key => job[t].results[k].o = r.o
               /\ r.created => first
               /\ ob.id \in DOMAIN rows' =>
                    LET by == rows'[ob.id].by
                    IN IF by = r.o THEN first => r.created
                       ELSE r.created => \/ by \in spoilt' \/ objs'[by].id = ob.id
                                         \/ ob.id = OwnId /\ decl.unique]_vars

\* Every instance leads to one row, its own.
OneRowEach == TypeOK /\ OwnRow /\ InsertedOnce

\* What the database or save() fills in by itself is never overwritten by a later save.
AutomaticKept == [][DefaultKept' /\ StampStays]_vars

=============================================================================
