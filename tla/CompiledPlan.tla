---------------------------- MODULE CompiledPlan ----------------------------
(***************************************************************************)
(* The compiled plan of a model: one mutable MetaInfo per model, shared by  *)
(* every task, holds the statements and the row decoders of the dialect     *)
(* that was asked for last (models.py: MetaInfo.compile).  An operation     *)
(* compiles for the dialect of its connection, sends a statement and awaits *)
(* the answer; meanwhile another task may compile the same model for        *)
(* another dialect.                                                         *)
(*                                                                          *)
(* A stamp says what a statement or a set of decoders was built for: a      *)
(* dialect and a version of the model's fields.                             *)
(***************************************************************************)
EXTENDS Naturals

CONSTANTS
  Tasks,      \* asyncio tasks
  Models,     \* model classes
  Dialects,   \* dialects of the registered connections
  Home,       \* the dialect of the models' own connection
  Returning,  \* supports_insert_returning
  Cascading,  \* m2m_on_delete_cascades
  Neutral,    \* no dialect
  MaxResets   \* bound: changes of a model's fields

ASSUME DialectAssumption ==
  /\ Home \in Dialects
  /\ Neutral \notin Dialects
  /\ Returning \subseteq Dialects
  /\ Cascading \subseteq Dialects
  /\ MaxResets \in Nat

VARIABLES
  meta,     \* meta[m]: the MetaInfo of model m
  m2mSql,   \* m2mSql[m][d]: the stamp of the cached SELECT of a relation to m
  op        \* op[t]: the operation task t runs, or the last one it ran

vars == <<meta, m2mSql, op>>

\* What compile() sets; "decode" is _read_decoders, decoder_names and
\* active_decoders, "partial" the dict of the only()/defer() plans.
Attrs == {"decode", "partial", "select", "insert", "update", "delete"}

Versions == 0 .. MaxResets
Stamp    == [dialect : Dialects \cup {Neutral}, fields : Versions]
NoStamp  == [dialect |-> Neutral, fields |-> 0]
Of(d, v) == [dialect |-> d, fields |-> v]
Built(s) == [a \in Attrs |-> s]
NoPlan   == Built(NoStamp)
NoPlans  == [d \in Dialects |-> NoPlan]

\* The fields' own converters serve until the first compile().
MetaInfo ==
  [compiledFor : Dialects \cup {Neutral}, \* _compiled_for
   fields      : Versions,                \* which set of fields the model has
   attr        : [Attrs -> Stamp],        \* the attributes in use
   plans       : [Dialects -> [Attrs -> Stamp]],  \* _compiled_plans
   partials    : SUBSET (Stamp \X Stamp)] \* entries of the dicts: <<dict, entry>>
Fresh == [compiledFor |-> Neutral, fields |-> 0, attr |-> NoPlan, plans |-> NoPlans,
          partials |-> {}]

Reads  == {"query", "get", "raw", "m2m", "prefetch"}
Writes == {"insert", "update", "delete"}
Kinds  == Reads \cup Writes \cup {"none"}

\* sent and held are the stamps of the statement and of the decoders the operation
\* keeps, used the decoders it applied to the rows; each for one or two models.
Stamps == [Models -> Stamp]
Unset  == [m \in Models |-> NoStamp]
Op == [kind : Kinds, on : Dialects, of : SUBSET Models,
       at : {"idle", "begun", "sent", "refresh"},
       sent : Stamps, held : Stamps, used : Stamps, stirred : BOOLEAN]
Idle == [kind |-> "none", on |-> Home, of |-> {}, at |-> "idle",
         sent |-> Unset, held |-> Unset, used |-> Unset, stirred |-> FALSE]

Init ==
  /\ meta   = [m \in Models |-> Fresh]
  /\ m2mSql = [m \in Models |-> [d \in Dialects |-> NoStamp]]
  /\ op     = [t \in Tasks |-> Idle]

-----------------------------------------------------------------------------
(* MetaInfo *)

\* A mutant, like every definition so marked: the list lacks the decoders.
AttrsWithoutDecode == Attrs \ {"decode"}

\* _COMPILED_PLAN_ATTRS: what a switch back to a dialect restores.
CompiledPlanAttrs == Attrs

Build(x, kept, d) ==
  LET plan == Built(Of(d, x.fields))
  IN  [x EXCEPT !.compiledFor = d, !.attr = plan, !.plans = [kept EXCEPT ![d] = plan]]

Restore(x, d) ==
  [x EXCEPT !.compiledFor = d,
            !.attr = [a \in Attrs |-> IF a \in CompiledPlanAttrs THEN x.plans[d][a] ELSE @[a]]]

\* Mutant: plans of the old fields survive.
CompileKeepsOld(x, d) ==
  CASE x.compiledFor = d -> x
    [] x.compiledFor # d /\ x.plans[d] # NoPlan -> Restore(x, d)
    [] OTHER -> Build(x, x.plans, d)

\* No dialect at all means that the fields changed: every plan is dropped.
Compile(x, d) ==
  CASE x.compiledFor = d -> x
    [] x.compiledFor = Neutral -> Build(x, NoPlans, d)
    [] x.compiledFor \in Dialects \ {d} /\ x.plans[d] # NoPlan -> Restore(x, d)
    [] OTHER -> Build(x, x.plans, d)

\* The decoders of a column subset come from the dict in use, or are put there.
PartialPlan(x) ==
  LET known == {e \in Stamp : <<x.attr["partial"], e>> \in x.partials}
  IN  IF known = {} THEN x.attr["decode"] ELSE CHOOSE e \in known : TRUE
Remember(x) ==
  [x EXCEPT !.partials = @ \cup {<<x.attr["partial"], PartialPlan(x)>>}]

-----------------------------------------------------------------------------
(* Operations: what they do up to their first await *)

CompileAll(ms, d) == [m \in Models |-> IF m \in ms THEN Compile(meta[m], d) ELSE meta[m]]

\* Of the models ms: an attribute of the plan, or text rendered for d on the spot.
Attr(now, ms, a)     == [m \in Models |-> IF m \in ms THEN now[m].attr[a] ELSE NoStamp]
Rendered(now, ms, d) == [m \in Models |-> IF m \in ms THEN Of(d, now[m].fields) ELSE NoStamp]

Awaiting(kind, d, ms, sent, held) ==
  [kind |-> kind, on |-> d, of |-> ms, at |-> "sent",
   sent |-> sent, held |-> held, used |-> Unset, stirred |-> FALSE]

\* History: whose plan somebody else exchanged while it awaited.
Stir(o, now) ==
  [o EXCEPT !.stirred = @ \/ (o.at # "idle" /\ \E m \in o.of : now[m].attr # meta[m].attr)]

Start(t, now, new) ==
  /\ op[t].at = "idle"
  /\ meta' = now
  /\ op' = [u \in Tasks |-> IF u = t THEN new ELSE Stir(op[u], now)]

\* QuerySet._fetch: the decoders are kept before the await.
Fetch(t, m, d) ==
  LET now == CompileAll({m}, d)
  IN  /\ Start(t, now, Awaiting("query", d, {m}, Attr(now, {m}, "select"),
                                                 Attr(now, {m}, "decode")))
      /\ UNCHANGED m2mSql

\* A SELECT rendered on the spot over ms, of whose members some under only() or defer().
Project(t, ms, some, d) ==
  LET now == CompileAll(ms, d)
  IN  /\ some \subseteq ms
      /\ Start(t, [m \in Models |-> IF m \in some THEN Remember(now[m]) ELSE now[m]],
                  Awaiting("query", d, ms, Rendered(now, ms, d),
                           [m \in Models |-> IF m \in some THEN PartialPlan(now[m])
                                             ELSE Attr(now, ms, "decode")[m]]))
      /\ UNCHANGED m2mSql

FetchOnly(t, m, d)             == Project(t, {m}, {m}, d)
FetchRelated(t, m, n, some, d) == Project(t, {m, n}, some, d)
FetchAnnotated(t, m, some, d)  == Project(t, {m}, some, d)

\* Mutant: the fast path trusts whatever is compiled.
GetUncompiled(t, m) ==
  /\ Start(t, meta, Awaiting("get", Home, {m}, Attr(meta, {m}, "select"), Unset))
  /\ UNCHANGED m2mSql

\* Model.get and get_or_none by plain equality: no decoders are kept.
Get(t, m) ==
  LET now == CompileAll({m}, Home)
  IN  /\ Start(t, now, Awaiting("get", Home, {m}, Attr(now, {m}, "select"), Unset))
      /\ UNCHANGED m2mSql

\* Model.raw: the caller's own SQL, and nothing is compiled.
Raw(t, m) ==
  /\ Start(t, meta, Awaiting("raw", Home, {m}, Rendered(meta, {m}, Home), Unset))
  /\ UNCHANGED m2mSql

\* The rows of a relation to m: compiled only when the SELECT is not cached yet.
FetchM2M(t, m) ==
  LET known == m2mSql[m][Home] # NoStamp
      now   == IF known THEN meta ELSE CompileAll({m}, Home)
      text  == IF known THEN m2mSql[m][Home] ELSE Of(Home, now[m].fields)
  IN  /\ Start(t, now, Awaiting("m2m", Home, {m}, [Unset EXCEPT ![m] = text], Unset))
      /\ m2mSql' = [m2mSql EXCEPT ![m][Home] = text]

\* prefetch_related() of such a relation.
PrefetchM2M(t, m) ==
  LET now == CompileAll({m}, Home)
  IN  /\ Start(t, now, Awaiting("prefetch", Home, {m}, Rendered(now, {m}, Home), Unset))
      /\ UNCHANGED m2mSql

\* save() of a new instance: statement, decoders and refresh are kept in locals.
Insert(t, m, d) ==
  LET now == CompileAll({m}, d)
  IN  /\ Start(t, now, Awaiting("insert", d, {m}, Attr(now, {m}, "insert"),
                                                  Attr(now, {m}, "decode")))
      /\ UNCHANGED m2mSql

\* save() of a stored one: the cached UPDATE, or one of some of the columns.
Update(t, m, d) ==
  LET now == CompileAll({m}, d)
  IN  /\ \E sent \in {Attr(now, {m}, "update"), Rendered(now, {m}, d)} :
           Start(t, now, Awaiting("update", d, {m}, sent, Unset))
      /\ UNCHANGED m2mSql

\* delete(): where join rows do not cascade, they go first, in a transaction.
Delete(t, m, d) ==
  LET now == CompileAll({m}, d)
      one == Awaiting("delete", d, {m}, Attr(now, {m}, "delete"), Unset)
  IN  /\ Start(t, now, IF d \in Cascading THEN one
                       ELSE [one EXCEPT !.at = "begun", !.sent = Unset])
      /\ UNCHANGED m2mSql

-----------------------------------------------------------------------------
(* Operations: after an await *)

Resume(t, at, to) ==
  /\ op[t].at = at
  /\ op' = [op EXCEPT ![t] = to]
  /\ UNCHANGED <<meta, m2mSql>>

\* The row's own DELETE is read from the plan after the join rows are gone.
SendDelete(t) ==
  Resume(t, "begun", [op[t] EXCEPT !.at = "sent", !.sent = Attr(meta, op[t].of, "delete")])

\* Mutant: the row is decoded with the plan the model has by now.
HydrateLate(t) ==
  /\ op[t].kind \in {"query", "insert"}
  /\ Resume(t, "sent", [op[t] EXCEPT !.at = "idle", !.used = Attr(meta, op[t].of, "decode")])

\* _hydrate_rows, _apply_returning: with the decoders kept.
HydrateHeld(t) ==
  /\ op[t].kind \in {"query", "insert"}
  /\ \E at \in {"idle", "refresh"} :
       /\ at = "refresh" => op[t].kind = "insert" /\ op[t].on \notin Returning
       /\ Resume(t, "sent", [op[t] EXCEPT !.at = at, !.used = op[t].held])

\* _from_db_row, _from_db_rows: with the decoders the model has now.
HydrateNow(t) ==
  /\ op[t].kind \in {"get", "raw", "m2m", "prefetch"}
  /\ Resume(t, "sent",
            [op[t] EXCEPT !.at = "idle", !.used = Attr(meta, op[t].of, "decode")])

Acknowledge(t) ==
  /\ op[t].kind \in {"update", "delete"}
  /\ Resume(t, "sent", [op[t] EXCEPT !.at = "idle"])

\* The defaults read back where INSERT returns nothing: the fields' own converters.
Refreshed(t) == Resume(t, "refresh", [op[t] EXCEPT !.at = "idle"])

\* An error or a cancellation at an await.
Abort(t) ==
  /\ op[t].at # "idle"
  /\ Resume(t, op[t].at, Idle)

\* The fields of a model changed: whoever changes them clears _compiled_for, the signal
\* that compile() takes for it (in the repository: the tests of the migrations).
ChangeFields(m) ==
  /\ meta[m].fields < MaxResets
  /\ LET x == meta[m]
     IN  meta' = [meta EXCEPT ![m] = [x EXCEPT !.fields = x.fields + 1, !.compiledFor = Neutral]]
  /\ UNCHANGED <<m2mSql, op>>

Next ==
  \/ \E t \in Tasks, m \in Models, d \in Dialects :
       \/ Fetch(t, m, d)
       \/ FetchOnly(t, m, d)
       \/ \E some \in SUBSET Models :
            FetchAnnotated(t, m, some, d) \/ \E n \in Models : FetchRelated(t, m, n, some, d)
       \/ Insert(t, m, d)
       \/ Update(t, m, d)
       \/ Delete(t, m, d)
  \/ \E t \in Tasks, m \in Models : Get(t, m) \/ Raw(t, m) \/ FetchM2M(t, m) \/ PrefetchM2M(t, m)
  \/ \E t \in Tasks :
       SendDelete(t) \/ HydrateHeld(t) \/ HydrateNow(t) \/ Acknowledge(t) \/ Refreshed(t) \/ Abort(t)
  \/ \E m \in Models : ChangeFields(m)

Spec == Init /\ [][Next]_vars

-----------------------------------------------------------------------------
(* Properties *)

TypeOK ==
  /\ meta \in [Models -> MetaInfo]
  /\ m2mSql \in [Models -> [Dialects -> Stamp]]
  /\ op \in [Tasks -> Op]

\* A plan put aside for a dialect was built for it, whole; while a dialect is in use
\* its plan is the one put aside, and no plan of older fields is left; the entries of
\* a dict of column subsets belong to the plan of that dict (MetaInfo.compile).
OwnPlans(x) ==
  /\ x.compiledFor # Neutral => x.attr = Built(Of(x.compiledFor, x.fields))
  /\ x.compiledFor # Neutral =>
       \A d \in Dialects : x.plans[d] \in {NoPlan, Built(Of(d, x.fields))}
  /\ \A e \in x.partials : e[1] = e[2]
PlansAreOwn == \A m \in Models : OwnPlans(meta[m])

\* Whatever other tasks compile meanwhile, a queryset's read and an INSERT send a
\* statement of their connection's dialect and decode its rows with the decoders of
\* that very statement's plan (QuerySet._fetch, Model._insert).
OwnSnapshot(o) ==
  o.kind \in {"query", "insert"} =>
    \A m \in o.of :
      /\ o.sent[m].dialect = o.on
      /\ o.held[m] = o.sent[m]
      /\ o.used[m] \in {NoStamp, o.sent[m]}
SnapshotsAreOwn == \A t \in Tasks : OwnSnapshot(op[t])

\* The other operations that compile are right as long as nobody exchanged the plan of
\* their model while they awaited (Model.get, delete, _prefetch_m2m).
OwnUnlessStirred(o) ==
  ~o.stirred /\ o.kind \notin {"raw", "m2m", "none"} =>
    \A m \in o.of :
      /\ o.at # "begun" => o.sent[m].dialect = o.on
      /\ o.used[m] \in {NoStamp, o.sent[m]}
UnstirredIsOwn == \A t \in Tasks : OwnUnlessStirred(op[t])

\* What makes that so: an operation under way whose plan nobody exchanged finds the plan
\* it compiled, and the statement it sent is of that plan; only delete() awaits first.
UnderWay(o) ==
  /\ o.at = "begun" => o.kind = "delete" /\ o.used = Unset
  /\ ~o.stirred /\ o.at \in {"begun", "sent"} /\ o.kind \notin {"raw", "m2m", "none"} =>
       \A m \in o.of :
         \E v \in Versions : /\ meta[m].attr = Built(Of(o.on, v))
                             /\ o.at = "sent" => o.sent[m] = Of(o.on, v)
IInv ==
  /\ TypeOK
  /\ PlansAreOwn
  /\ SnapshotsAreOwn
  /\ UnstirredIsOwn
  /\ \A t \in Tasks : UnderWay(op[t])

\* After a change of the fields no operation that compiles sends a statement built
\* for the old ones.
NewestFields ==
  [][\A t \in Tasks :
       op[t].at = "idle" /\ op'[t].at = "sent" /\ op'[t].kind \notin {"raw", "m2m"} =>
         \A m \in op'[t].of : op'[t].sent[m].fields = meta[m].fields]_vars

\* "The read paths capture the plan before awaiting the fetch" (queryset.py:211), so
\* that no row is decoded with another dialect's decoders.  raw() renders nothing.
ReadsAreOwn ==
  \A t \in Tasks :
    op[t].kind \in Reads \ {"raw"} =>
      \A m \in op[t].of : op[t].used[m].dialect \in {Neutral, op[t].on}

=============================================================================
